---- MODULE Spec2Model ----
(***************************************************************************)
(* Model of the dialogue orchestration core of think_first:                *)
(*   core/models.py        Conversation, Interaction, ThinkingReview       *)
(*   core/views.py         chat_view, delete_conversation,                 *)
(*                         api_send_message, api_rollback_conversation     *)
(*   core/views_helper.py  api_retry_last_message, _handle_chat_response,  *)
(*                         _handle_relativity_demo                         *)
(*   core/services/deepseek_service.py  the gateway calls                  *)
(*                                                                         *)
(* A Python string is a sequence of characters.  Text typed by the user is *)
(* modelled character by character (a CJK character is written as a token  *)
(* such as "yin"), so that slicing, substring tests and replace() are      *)
(* computed as the code computes them.  A fixed text of the program or a   *)
(* text produced by a backend is a sequence of one token.                  *)
(* The database runs in Django's default autocommit mode: every            *)
(* objects.create(), save() and delete() takes effect when it is executed. *)
(***************************************************************************)
EXTENDS Naturals, Sequences, FiniteSets, TLC

VARIABLES
    convs,       \* Conversation table: id -> row
    inters,      \* Interaction table: rows in ascending id (insertion) order
    reviews,     \* ThinkingReview table: set of rows
    nextId,      \* next auto-increment id of Interaction
    nextConvId,  \* next auto-increment id of Conversation
    last,        \* the last request handled and its response
    env,         \* the environment the requests come from
    race         \* the requests in flight when requests are served concurrently

vars == <<convs, inters, reviews, nextId, nextConvId, last, env, race>>

(***************************************************************************)
(* Bounds of the model.                                                    *)
(***************************************************************************)
MaxId == 7          \* interactions ever created in the environment Dialogue
MaxInputId == 5     \* interactions ever created in the environments Texts and Faults
MaxScriptId == 11   \* interactions ever created in the environment Script
MaxConvs == 2       \* conversations ever created in Dialogue, Faults, Open and Closing
MaxScriptConvs == 1 \* conversations ever created in Texts, Script and Reopen
MaxReopenId == 7    \* interactions ever created in the environment Reopen
MaxOpenId == 3      \* interactions ever created in the environment Open
MaxClosingId == 13  \* interactions ever created in the environment Closing

(***************************************************************************)
(* Program constants.                                                      *)
(***************************************************************************)
TopicLen == 30
ContextLen == 5

Users == {"alice", "bob"}
ConvIds == 1..(MaxConvs + 1)
Methods == {"POST", "GET"}
Images == {"none", "saved", "failed"}

(***************************************************************************)
(* Strings.                                                                *)
(***************************************************************************)
None == <<"None">>
NoUrl == "None"

Min(a, b) == IF a <= b THEN a ELSE b

\* s[:n]
Prefix(s, n) == SubSeq(s, 1, Min(n, Len(s)))

\* s.startswith(p)
StartsWith(s, p) == Len(s) >= Len(p) /\ SubSeq(s, 1, Len(p)) = p

\* p in s
Contains(s, p) ==
    \E i \in 1..(Len(s) + 1) : i + Len(p) - 1 <= Len(s) /\ SubSeq(s, i, i + Len(p) - 1) = p

\* s.replace(ch, "")
RemoveChar(s, ch) == SelectSeq(s, LAMBDA x : x # ch)

\* not s
Falsy(s) == s = None \/ s = <<>>

QMarkWide == "?F"   \* the full-width question mark
QMark == "?"

EmptyText == <<>>
ShortText == <<"h", "i">>
LongText == [i \in 1..(TopicLen + 1) |-> IF i <= TopicLen THEN "a" ELSE "b"]
GravityText == <<"yin", "li">>
RelativityText == <<"guang", "yi", "xiang", "dui", "lun", "shi", "shen", "me", QMarkWide>>

DemoTrigger1 == <<"guang", "yi", "xiang", "dui", "lun", "shi", "shen", "me">>
DemoTrigger2a == <<"yin", "li">>
DemoTrigger2b == <<"xiang", "dui", "lun">>
DemoStartText == <<"wei", "shen", "me", "hui", "you", "yin", "li", QMarkWide>>
DemoMarker == <<"[", "D", "E", "M", "O", "]">>
DemoTopic == DemoMarker \o <<" ", "R", "e", "l", "a", "t", "i", "v", "i", "t", "y">>
\* a text of the learner that begins with the marker and starts no script
MarkedText == DemoMarker \o <<" ", "x">>
UploadPlaceholderText == <<"[", "yong", "hu", "shang", "chuan", "le", "yi", "zhang", "tu", "pian", "]">>

GreetingText == <<"GREETING">>
DefaultProbeText == <<"DEFAULT_PROBE">>
ThinkingDoneText == <<"THINKING_DONE">>
NotUnderstoodText == <<"NOT_UNDERSTOOD">>
NotUnderstoodAnswer == <<"NOT_UNDERSTOOD...">>
DegenerateGuideText == <<"DEGENERATE_GUIDE">>
DefaultDesmosGuide == <<"DEFAULT_DESMOS_GUIDE">>
DefaultImageGuide == <<"DEFAULT_IMAGE_GUIDE">>
DefaultVerifyGuide == <<"DEFAULT_VERIFY_GUIDE">>
DefaultNextImageGuide == <<"DEFAULT_NEXT_IMAGE_GUIDE">>
DefaultHint == <<"DEFAULT_HINT">>
FinishGuideText == <<"FINISH_GUIDE">>

UserTypes == {"question", "probe_answer", "user_interpretation"}
AiTypes == {"ai_feedback", "ai_image"}
Statuses == {"initial_probe", "visual_loop", "review"}

(***************************************************************************)
(* The database.                                                           *)
(***************************************************************************)
DB == [convs |-> convs, inters |-> inters, reviews |-> reviews, nextId |-> nextId]

\* conversation.interactions.all(), in id order
Log(db, c) == SelectSeq(db.inters, LAMBDA i : i.conversation = c)

\* Conversation.objects.create(...): the table with row r under the new id c
AddRow(table, c, r) == [k \in DOMAIN table \cup {c} |-> IF k = c THEN r ELSE table[k]]

\* CreateInteraction with the id taken from the number of rows stored
CreateInteractionCountingRows(db, c, type, text, url, prompt) ==
    [db EXCEPT !.inters = Append(@, [id |-> Len(db.inters) + 1, conversation |-> c,
                                     type |-> type, text_content |-> text,
                                     image_url |-> url, image_prompt |-> prompt,
                                     is_passed |-> FALSE]),
               !.nextId = @ + 1]

\* Interaction.objects.create(...)
CreateInteraction(db, c, type, text, url, prompt) ==
    [db EXCEPT !.inters = Append(@, [id |-> db.nextId, conversation |-> c, type |-> type,
                                     text_content |-> text, image_url |-> url,
                                     image_prompt |-> prompt, is_passed |-> FALSE]),
               !.nextId = @ + 1]

\* DeleteInteractions that deletes every row from the first of ids on
DeleteInteractionsFromFirst(db, ids) ==
    [db EXCEPT !.inters = SelectSeq(@, LAMBDA i : \A j \in ids : i.id < j)]

\* instance.delete() / queryset.delete() of the interactions whose id is in ids
DeleteInteractions(db, ids) ==
    [db EXCEPT !.inters = SelectSeq(@, LAMBDA i : i.id \notin ids)]

\* get_object_or_404(Conversation, id=conversation_id, user=request.user)
Owned(db, u, c) == c \in DOMAIN db.convs /\ db.convs[c].user = u

NoResponse == [http |-> 0, status |-> "none", answer |-> None, image_url |-> NoUrl,
               extra |-> "none"]

\* JsonResponse({...}, status=http)
JsonResponse(http, status, answer, url, extra) ==
    [http |-> http, status |-> status, answer |-> answer, image_url |-> url, extra |-> extra]

\* an exception that leaves the view: Django answers 500 without a JSON body
ServerError == JsonResponse(500, "none", None, NoUrl, "none")
NotFound == JsonResponse(404, "none", None, NoUrl, "none")

Ids(rows) == {rows[k].id : k \in DOMAIN rows}

NoConv == [user |-> "nobody", topic |-> <<>>, status |-> "none", is_completed |-> FALSE]

\* request.user, request.method and the ids the request names (0 for none)
Caller(u, m, c, t) == [u |-> u, m |-> m, c |-> c, t |-> t]
NoCaller == Caller("nobody", "none", 0, 0)

\* the record of a request served on database db with result r: who sent
\* it, the conversation and the target interaction it resolved (0 when it
\* resolved none), the text, the upload and the backend outcomes it was
\* given, the conversation row it found, the interaction ids it removed and
\* created, its response and the backend calls it made
Request(op, caller, c, target, query, image, gw, db, r) ==
    [op |-> op, caller |-> caller, conv |-> c, target |-> target, query |-> query,
     image |-> image,
     gw |-> gw,
     was |-> IF c \in DOMAIN db.convs THEN db.convs[c] ELSE NoConv,
     removed |-> Ids(db.inters) \ Ids(r.db.inters),
     created |-> Ids(r.db.inters) \ Ids(db.inters),
     resp |-> r.resp, calls |-> r.calls, context |-> r.context]

Commit(db) ==
    /\ convs' = db.convs
    /\ inters' = db.inters
    /\ reviews' = db.reviews
    /\ nextId' = db.nextId
    /\ env' = env

(***************************************************************************)
(* core/services/deepseek_service.py: what each backend call returns, by   *)
(* the outcome of the call.                                                *)
(***************************************************************************)
ChatOutcomes == {"ok", "empty", "nokey", "error"}
ImageOutcomes == {"saved", "unsaved", "nokey", "error"}
VisionOutcomes == {"ok", "nokey", "error"}
ClassifyOutcomes == {"dict", "nondict", "notjson", "nokey", "error"}
Intents == {"probe_deeper", "has_idea", "no_idea", "verify_understanding", "finish",
            "explaining_image", "other"}

\* the outcomes of the backend calls of one request, when every call succeeds
\* and the classification carries every field
GwDefault ==
    [probe |-> "ok", vision |-> "ok", classify |-> "dict", intent |-> "has_idea",
     tool |-> "image_generation", guide |-> "given", vprompt |-> TRUE, latex |-> TRUE,
     evaluation |-> "pass", hint |-> TRUE, followup |-> "ok", genprompt |-> "ok",
     image |-> "saved"]

\* DeepSeekService.chat_completion
ChatCompletion(outcome) ==
    CASE outcome = "ok" -> <<"LLM_TEXT">>
      [] outcome = "empty" -> <<>>
      [] outcome = "nokey" -> <<"Error: DeepSeek API Key not configured.">>
      [] outcome = "error" -> <<"Error: exception">>

\* DeepSeekService.generate_initial_probe
GenerateInitialProbe(gw) == ChatCompletion(gw.probe)

\* DeepSeekService.generate_visual_prompt
GenerateVisualPrompt(gw) == ChatCompletion(gw.genprompt)

\* GenerateImage with no placeholder: nothing is returned when the call fails
GenerateImageNoPlaceholder(outcome) ==
    CASE outcome = "saved" -> "/media/ai_images/local.png"
      [] outcome = "unsaved" -> "https://remote/original.png"
      [] OTHER -> NoUrl

\* DeepSeekService.generate_image
GenerateImage(outcome) ==
    CASE outcome = "saved" -> "/media/ai_images/local.png"
      [] outcome = "unsaved" -> "https://remote/original.png"
      [] outcome = "nokey" -> "https://placehold.co/1024x1024/png?text=API+Key+Missing"
      [] outcome = "error" -> "https://placehold.co/1024x1024/png?text=Image+Error"

\* DeepSeekService.analyze_image_content
AnalyzeImageContent(outcome) ==
    CASE outcome = "ok" -> <<"VISION_TEXT">>
      [] outcome = "nokey" -> <<"Error: SiliconFlow API Key not set.">>
      [] outcome = "error" -> <<"VISION_FAILED: exception">>

\* DeepSeekService.analyze_user_input: the parsed classification, or the
\* substitute {"intent": "unknown", "feedback": ...} when the reply of
\* chat_completion (an "Error: ..." text included) is not JSON.
\* A field the reply does not carry is None.
AnalyzeUserInput(gw) ==
    IF gw.classify \in {"dict", "nondict"}
    THEN [intent |-> gw.intent,
          tool |-> gw.tool,
          visual_guide_text |-> CASE gw.guide = "given" -> <<"GUIDE_TEXT">>
                                  [] gw.guide = "degenerate" -> DegenerateGuideText
                                  [] gw.guide = "absent" -> None,
          visual_prompt |-> IF gw.vprompt THEN <<"VISUAL_PROMPT">> ELSE None,
          desmos_latex |-> IF gw.latex THEN <<"LATEX">> ELSE None,
          evaluation |-> gw.evaluation,
          next_step_hint |-> IF gw.hint THEN <<"HINT_TEXT">> ELSE None]
    ELSE [intent |-> "unknown", tool |-> "absent", visual_guide_text |-> None,
          visual_prompt |-> None, desmos_latex |-> None, evaluation |-> "absent",
          next_step_hint |-> None]

\* core/utils.py save_uploaded_file: (url, path), or (None, None) when the
\* file cannot be written
SaveUploadedFile(image) == IF image = "saved" THEN "/media/user_uploads/file.jpg" ELSE NoUrl

(***************************************************************************)
(* core/views_helper.py _handle_relativity_demo                            *)
(***************************************************************************)
\* what a handler leaves: the database, the response, the backend calls it
\* made and the context it gave to the classification (empty when it
\* classified nothing)
Result(db, resp, calls) == [db |-> db, resp |-> resp, calls |-> calls, context |-> <<>>]

Success(answer, url, extra) == JsonResponse(200, "success", answer, url, extra)

DemoHookText == <<"DEMO_HOOK">>
DemoChallengeGuide == <<"DEMO_CHALLENGE_GUIDE">>
DemoFinishGuide == <<"DEMO_FINISH_GUIDE">>
DemoStepPrompt(step) ==
    CASE step = 1 -> <<"DEMO_PROMPT_1_VOID">>
      [] step = 2 -> <<"DEMO_PROMPT_2_MASS">>
      [] step = 3 -> <<"DEMO_PROMPT_3_INTERACTION">>
DemoStepText(step) ==
    CASE step = 1 -> <<"DEMO_TEXT_1_VOID">>
      [] step = 2 -> <<"DEMO_TEXT_2_MASS">>
      [] step = 3 -> <<"DEMO_TEXT_3_INTERACTION">>
ChallengeBlock(payload) == <<"<CHALLENGE>">> \o payload \o <<"</CHALLENGE>">>
FinalReviewBlock(review) == <<"<FINAL_REVIEW>">> \o review \o <<"</FINAL_REVIEW>">>

\* conversation.interactions.filter(type__in=['ai_feedback', 'ai_image']).count()
DemoStep(db, c) == Len(SelectSeq(Log(db, c), LAMBDA i : i.type \in AiTypes))

\* DemoStart that opens the script in the first phase
DemoStartInInitialProbe(db, c, user_input) ==
    LET db1 == [db EXCEPT !.convs[c].topic = DemoTopic, !.convs[c].status = "initial_probe"]
        db2 == CreateInteraction(db1, c, "question", user_input, NoUrl, None)
        db3 == CreateInteraction(db2, c, "ai_feedback", DemoHookText, NoUrl, None)
    IN Result(db3, Success(DemoHookText, NoUrl, "none"), {})

\* lines 348-369: the start of the script
DemoStart(db, c, user_input) ==
    LET db1 == [db EXCEPT !.convs[c].topic = DemoTopic, !.convs[c].status = "visual_loop"]
        db2 == CreateInteraction(db1, c, "question", user_input, NoUrl, None)
        db3 == CreateInteraction(db2, c, "ai_feedback", DemoHookText, NoUrl, None)
    IN Result(db3, Success(DemoHookText, NoUrl, "none"), {})

DemoImageStep(db, c, step, gw) ==
    LET image_url == GenerateImage(gw.image)
        db1 == CreateInteraction(db, c, "ai_image", DemoStepText(step), image_url,
                                 DemoStepPrompt(step))
    IN Result(db1, Success(DemoStepText(step), image_url, "none"), {"generate_image"})

DemoChallenge(db, c) ==
    LET full_content == DemoChallengeGuide \o ChallengeBlock(<<"DEMO_FILL">>)
        db1 == CreateInteraction(db, c, "ai_feedback", full_content, NoUrl, None)
    IN Result(db1, Success(DemoChallengeGuide, NoUrl, "challenge"), {})

\* DemoFinish that stores the final review it returns
DemoFinishWithReview(db, c) ==
    LET db1 == [db EXCEPT !.convs[c].is_completed = TRUE,
                          !.reviews = @ \cup {[conversation |-> c,
                                               advice_text |-> <<"DEMO_REVIEW">>]}]
        db2 == CreateInteraction(db1, c, "ai_feedback", DemoFinishGuide, NoUrl, None)
    IN Result(db2, Success(DemoFinishGuide \o FinalReviewBlock(<<"DEMO_REVIEW">>), NoUrl,
                           "final_review"), {})

\* lines 441-458: the closing synthesis of the script
DemoFinish(db, c) ==
    LET db1 == [db EXCEPT !.convs[c].is_completed = TRUE]
        db2 == CreateInteraction(db1, c, "ai_feedback", DemoFinishGuide, NoUrl, None)
    IN Result(db2, Success(DemoFinishGuide \o FinalReviewBlock(<<"DEMO_REVIEW">>), NoUrl,
                           "final_review"), {})

HandleRelativityDemo(db, c, user_input, is_start, uploaded_image_url, gw) ==
    LET step == DemoStep(db, c)
    IN IF is_start
       THEN DemoStart(db, c, user_input)
       ELSE LET db1 == CreateInteraction(db, c, "user_interpretation", user_input,
                                         uploaded_image_url, None)
            IN CASE step \in {1, 2, 3} -> DemoImageStep(db1, c, step, gw)
                 [] step = 4 -> DemoChallenge(db1, c)
                 [] OTHER -> DemoFinish(db1, c)

(***************************************************************************)
(* core/views_helper.py _handle_chat_response                              *)
(***************************************************************************)
\* conversation.interactions.last(): a new instance of the stored row
LastInteraction(db, c) == Log(db, c)[Len(Log(db, c))]

\* instance.save(): the stored row with the id of the instance takes its fields
SaveInteraction(db, instance) ==
    [db EXCEPT !.inters = [k \in DOMAIN @ |->
                              IF @[k].id = instance.id THEN instance ELSE @[k]]]

\* value if value else default
OrDefault(value, default) == IF Falsy(value) THEN default ELSE value

\* InitialProbe with topic = user_input, not cut to its first characters
InitialProbeWholeTopic(db, c, user_input, uploaded_image_url, gw) ==
    LET db1 == CreateInteraction(db, c, "question", user_input, uploaded_image_url, None)
        has_image == uploaded_image_url # NoUrl
        answer == IF has_image
                  THEN <<"VISION_ANSWER_PREFIX">> \o AnalyzeImageContent(gw.vision)
                       \o <<"VISION_ANSWER_SUFFIX">>
                  ELSE OrDefault(GenerateInitialProbe(gw), DefaultProbeText)
        db2 == CreateInteraction(db1, c, "ai_feedback", answer, NoUrl, None)
        db3 == [db2 EXCEPT !.convs[c].status = "visual_loop",
                           !.convs[c].topic = user_input]
    IN Result(db3, Success(answer, NoUrl, "none"),
              IF has_image THEN {"analyze_image_content"} ELSE {"generate_initial_probe"})

\* lines 86-115: the initial_probe branch
InitialProbe(db, c, user_input, uploaded_image_url, gw) ==
    LET db1 == CreateInteraction(db, c, "question", user_input, uploaded_image_url, None)
        has_image == uploaded_image_url # NoUrl
        answer == IF has_image
                  THEN <<"VISION_ANSWER_PREFIX">> \o AnalyzeImageContent(gw.vision)
                       \o <<"VISION_ANSWER_SUFFIX">>
                  ELSE OrDefault(GenerateInitialProbe(gw), DefaultProbeText)
        db2 == CreateInteraction(db1, c, "ai_feedback", answer, NoUrl, None)
        db3 == [db2 EXCEPT !.convs[c].status = "visual_loop",
                           !.convs[c].topic = Prefix(user_input, TopicLen)]
    IN Result(db3, Success(answer, NoUrl, "none"),
              IF has_image THEN {"analyze_image_content"} ELSE {"generate_initial_probe"})

\* lines 173-196: intent probe_deeper
ProbeDeeper(db, c, analysis, gw) ==
    LET again == Falsy(analysis.visual_guide_text)
                 \/ analysis.visual_guide_text = DegenerateGuideText
        guide_text == IF again THEN ChatCompletion(gw.followup)
                      ELSE analysis.visual_guide_text
        db1 == CreateInteraction(db, c, "ai_feedback", guide_text, NoUrl, None)
    IN Result(db1, Success(guide_text, NoUrl, "none"),
              {"analyze_user_input"} \cup (IF again THEN {"chat_completion"} ELSE {}))

\* DesmosPlot that keeps the plot expression out of the entry: the
\* description is the prefix alone
DesmosPlotWithoutExpression(db, c, analysis) ==
    LET latex == IF analysis.desmos_latex = None THEN <<>> ELSE analysis.desmos_latex
        guide_text == OrDefault(analysis.visual_guide_text, DefaultDesmosGuide)
        db1 == CreateInteraction(db, c, "ai_image", guide_text, NoUrl, <<"DESMOS: ">>)
    IN Result(db1, Success(guide_text, NoUrl, "desmos_latex") @@ [desmos_latex |-> latex],
              {"analyze_user_input"})

\* lines 203-217: the symbolic plot; the response carries the key
\* desmos_latex, which no other response has
DesmosPlot(db, c, analysis) ==
    LET latex == IF analysis.desmos_latex = None THEN <<>> ELSE analysis.desmos_latex
        guide_text == OrDefault(analysis.visual_guide_text, DefaultDesmosGuide)
        db1 == CreateInteraction(db, c, "ai_image", guide_text, NoUrl, <<"DESMOS: ">> \o latex)
    IN Result(db1, Success(guide_text, NoUrl, "desmos_latex") @@ [desmos_latex |-> latex],
              {"analyze_user_input"})

\* lines 219-230 and 297-308: a generated image and its ai_image entry
GeneratedImage(db, c, analysis, default_guide, gw) ==
    LET generate == Falsy(analysis.visual_prompt)
        prompt == IF generate THEN GenerateVisualPrompt(gw) ELSE analysis.visual_prompt
        image_url == GenerateImage(gw.image)
        guide_text == OrDefault(analysis.visual_guide_text, default_guide)
        db1 == CreateInteraction(db, c, "ai_image", guide_text, image_url, prompt)
    IN Result(db1, Success(guide_text, image_url, "none"),
              {"analyze_user_input", "generate_image"}
              \cup (IF generate THEN {"generate_visual_prompt"} ELSE {}))

\* VerifyUnderstanding that closes the visual loop: the phase becomes review
VerifyUnderstandingToReview(db, c, analysis) ==
    LET guide_text == OrDefault(analysis.visual_guide_text, DefaultVerifyGuide)
        db1 == CreateInteraction([db EXCEPT !.convs[c].status = "review"], c,
                                 "ai_feedback", guide_text, NoUrl, None)
    IN Result(db1, Success(guide_text, NoUrl, "challenge"), {"analyze_user_input"})

\* lines 232-270: intent verify_understanding.  The challenge block is assigned
\* to the text_content of one instance fetched by interactions.last(); save()
\* is called on another instance, fetched again, which writes back the row as
\* it is stored.
VerifyUnderstanding(db, c, analysis) ==
    LET guide_text == OrDefault(analysis.visual_guide_text, DefaultVerifyGuide)
        db1 == CreateInteraction(db, c, "ai_feedback", guide_text, NoUrl, None)
        full_content == guide_text \o ChallengeBlock(<<"FILL_IN_THE_BLANK">>)
        assigned == [LastInteraction(db1, c) EXCEPT !.text_content = full_content]
        saved == LastInteraction(db1, c)
        db2 == SaveInteraction(db1, saved)
    IN Result(db2, Success(guide_text, NoUrl, "challenge"), {"analyze_user_input"})

\* Finish that also sets conversation.is_completed
FinishCompleted(db, c) ==
    LET db1 == [db EXCEPT !.convs[c].status = "review", !.convs[c].is_completed = TRUE]
        db2 == CreateInteraction(db1, c, "ai_feedback", FinishGuideText, NoUrl, None)
    IN Result(db2, Success(FinishGuideText, NoUrl, "none"), {"analyze_user_input"})

\* lines 272-284: intent finish
Finish(db, c) ==
    LET db1 == [db EXCEPT !.convs[c].status = "review"]
        db2 == CreateInteraction(db1, c, "ai_feedback", FinishGuideText, NoUrl, None)
    IN Result(db2, Success(FinishGuideText, NoUrl, "none"), {"analyze_user_input"})

\* MarkLastPassed that also writes the verdict into the text of the entry
MarkLastPassedWithVerdict(db, c) ==
    IF Len(Log(db, c)) = 0 THEN db
    ELSE LET current == Log(db, c)[Len(Log(db, c))]
         IN [db EXCEPT !.inters = [k \in DOMAIN @ |->
                IF @[k].id = current.id
                THEN [@[k] EXCEPT !.is_passed = TRUE,
                                  !.text_content = @ \o <<"PASSED">>]
                ELSE @[k]]]

\* lines 291-294: interactions.last().is_passed = True; save()
MarkLastPassed(db, c) ==
    IF Len(Log(db, c)) = 0 THEN db
    ELSE LET current == Log(db, c)[Len(Log(db, c))]
         IN [db EXCEPT !.inters = [k \in DOMAIN @ |->
                IF @[k].id = current.id THEN [@[k] EXCEPT !.is_passed = TRUE] ELSE @[k]]]

\* lines 286-312: intent explaining_image
ExplainingImage(db, c, analysis, gw) ==
    IF analysis.evaluation = "pass"
    THEN GeneratedImage(MarkLastPassed(db, c), c, analysis, DefaultNextImageGuide, gw)
    ELSE LET hint == IF analysis.next_step_hint = None THEN DefaultHint
                     ELSE analysis.next_step_hint
             db1 == CreateInteraction(db, c, "ai_feedback", hint, NoUrl, None)
         IN Result(db1, Success(hint, NoUrl, "none"), {"analyze_user_input"})

\* UserInteractionType that takes any system entry for an ai_feedback
UserInteractionTypeAnyAi(log) ==
    IF Len(log) > 0 /\ log[Len(log)].type \in AiTypes
    THEN "probe_answer" ELSE "user_interpretation"

\* lines 119-122: the type of the user entry, from interactions.last()
UserInteractionType(log) ==
    IF Len(log) > 0 /\ log[Len(log)].type = "ai_feedback"
    THEN "probe_answer" ELSE "user_interpretation"

\* RecentInteractions without reversed(): the newest entry first
RecentInteractionsNewestFirst(log) ==
    [k \in 1..Min(ContextLen, Len(log)) |-> log[Len(log) + 1 - k]]

\* lines 144-145: interactions.all().order_by('-created_at')[:5], reversed
RecentInteractions(log) ==
    SubSeq(log, Len(log) - Min(ContextLen, Len(log)) + 1, Len(log))

\* line 147: one element of the context per recent interaction, with
\* i.text_content or i.image_prompt
ClassificationContext(db, c) ==
    LET recent == RecentInteractions(Log(db, c))
    IN [k \in DOMAIN recent |->
           [id |-> recent[k].id, type |-> recent[k].type,
            text |-> IF Falsy(recent[k].text_content) THEN recent[k].image_prompt
                     ELSE recent[k].text_content]]

\* lines 148-312: the dispatch on the intent of the classification.  A reply
\* that is JSON but no object has no get(): AttributeError.  When no branch
\* is taken the function ends without a return statement: the view returns
\* None and Django answers 500.
IntentDispatch(db, c, analysis, gw) ==
    IF gw.classify = "nondict"
    THEN Result(db, ServerError, {"analyze_user_input"})
    ELSE CASE analysis.intent = "probe_deeper" -> ProbeDeeper(db, c, analysis, gw)
           [] analysis.intent \in {"no_idea", "has_idea"} ->
                 IF analysis.tool = "desmos"
                 THEN DesmosPlot(db, c, analysis)
                 ELSE GeneratedImage(db, c, analysis, DefaultImageGuide, gw)
           [] analysis.intent = "verify_understanding" -> VerifyUnderstanding(db, c, analysis)
           [] analysis.intent = "finish" -> Finish(db, c)
           [] analysis.intent = "explaining_image" -> ExplainingImage(db, c, analysis, gw)
           [] OTHER -> Result(db, ServerError, {"analyze_user_input"})

\* VisualLoop without the image short-circuit: a turn with an upload is
\* classified as any other
VisualLoopNoShortCircuit(db, c, user_input, uploaded_image_url, gw) ==
    LET user_interaction_type == UserInteractionType(Log(db, c))
        has_image == uploaded_image_url # NoUrl
        db1 == IF ~Falsy(user_input) \/ has_image
               THEN CreateInteraction(db, c, user_interaction_type, user_input,
                                      uploaded_image_url, None)
               ELSE db
    IN [IntentDispatch(db1, c, AnalyzeUserInput(gw), gw)
           EXCEPT !.context = ClassificationContext(db1, c)]

\* lines 118-312: the visual_loop branch
VisualLoop(db, c, user_input, uploaded_image_url, gw) ==
    LET user_interaction_type == UserInteractionType(Log(db, c))
        has_image == uploaded_image_url # NoUrl
        db1 == IF ~Falsy(user_input) \/ has_image
               THEN CreateInteraction(db, c, user_interaction_type, user_input,
                                      uploaded_image_url, None)
               ELSE db
    IN IF has_image
       THEN LET text == AnalyzeImageContent(gw.vision)
                db2 == CreateInteraction(db1, c, "ai_feedback", text, NoUrl, None)
            IN Result(db2, Success(text, NoUrl, "none"), {"analyze_image_content"})
       ELSE [IntentDispatch(db1, c, AnalyzeUserInput(gw), gw)
                EXCEPT !.context = ClassificationContext(db1, c)]

\* lines 315-342: the second review branch (final synthesis)
FinalSynthesis(db, c, user_input) ==
    LET db1 == CreateInteraction(db, c, "user_synthesis", user_input, NoUrl, None)
        db2 == [db1 EXCEPT !.convs[c].is_completed = TRUE]
        db3 == [db2 EXCEPT !.reviews = @ \cup {[conversation |-> c, advice_text |-> user_input]}]
    IN Result(db3, Success(FinalReviewBlock(<<"REVIEW">>), NoUrl, "final_review"), {})

\* lines 344-346: a status outside the three phases
UnknownStatus(db, c) ==
    LET db1 == CreateInteraction(db, c, "ai_feedback", NotUnderstoodText, NoUrl, None)
    IN Result(db1, Success(NotUnderstoodAnswer, NoUrl, "none"), {})

\* lines 81-83: the first review branch
ReviewShortCircuit(db) == Result(db, Success(ThinkingDoneText, NoUrl, "none"), {})

\* lines 67-73: (is_demo_trigger, user_input)
DemoTrigger(db, c, user_input) ==
    IF Contains(RemoveChar(RemoveChar(user_input, QMarkWide), QMark), DemoTrigger1)
    THEN [is_demo_trigger |-> TRUE, user_input |-> DemoStartText]
    ELSE [is_demo_trigger |-> Len(Log(db, c)) <= 1
                              /\ (Contains(user_input, DemoTrigger2a)
                                  \/ Contains(user_input, DemoTrigger2b)),
          user_input |-> user_input]

\* PhaseDispatch with the final synthesis in place of the review short-circuit
PhaseDispatchSynthesisFirst(db, c, user_input, uploaded_image_url, gw) ==
    LET status == db.convs[c].status
    IN IF status = "review" THEN FinalSynthesis(db, c, user_input)
       ELSE IF status = "initial_probe"
       THEN InitialProbe(db, c, user_input, uploaded_image_url, gw)
       ELSE IF status = "visual_loop"
       THEN VisualLoop(db, c, user_input, uploaded_image_url, gw)
       ELSE UnknownStatus(db, c)

\* lines 81-346: the dispatch on conversation.status
PhaseDispatch(db, c, user_input, uploaded_image_url, gw) ==
    LET status == db.convs[c].status
    IN IF status = "review" THEN ReviewShortCircuit(db)
       ELSE IF status = "initial_probe"
       THEN InitialProbe(db, c, user_input, uploaded_image_url, gw)
       ELSE IF status = "visual_loop"
       THEN VisualLoop(db, c, user_input, uploaded_image_url, gw)
       ELSE IF status = "review" THEN FinalSynthesis(db, c, user_input)
       ELSE UnknownStatus(db, c)

\* _handle_chat_response(conversation, user_input, image_file).  A user_input
\* of None raises AttributeError at user_input.replace (line 68).
HandleChatResponse(db, c, query, image, gw) ==
    LET uploaded_image_url == SaveUploadedFile(image)
        user_input == IF Falsy(query) /\ uploaded_image_url # NoUrl
                      THEN UploadPlaceholderText ELSE query
    IN IF user_input = None THEN Result(db, ServerError, {})
       ELSE LET t == DemoTrigger(db, c, user_input)
            IN IF t.is_demo_trigger \/ StartsWith(db.convs[c].topic, DemoMarker)
               THEN HandleRelativityDemo(db, c, t.user_input, t.is_demo_trigger,
                                         uploaded_image_url, gw)
               ELSE PhaseDispatch(db, c, t.user_input, uploaded_image_url, gw)

(***************************************************************************)
(* core/views.py chat_view                                                 *)
(***************************************************************************)
\* EmptyConvs with count__lte=0: a conversation that holds its greeting is
\* not pending
EmptyConvsWithoutGreeting(db, u) ==
    {c \in DOMAIN db.convs :
        /\ db.convs[c].user = u
        /\ db.convs[c].status = "initial_probe"
        /\ Len(Log(db, c)) = 0}

\* the pending empty conversations of the user (lines 125-128)
EmptyConvs(db, u) ==
    {c \in DOMAIN db.convs :
        /\ db.convs[c].user = u
        /\ db.convs[c].status = "initial_probe"
        /\ Len(Log(db, c)) <= 1}

NewConversation(u) ==
    [user |-> u, topic |-> <<>>, status |-> "initial_probe", is_completed |-> FALSE]

ChatViewDB(db, u, c) ==
    IF EmptyConvs(db, u) # {}
    THEN db
    ELSE CreateInteraction([db EXCEPT !.convs = AddRow(@, c, NewConversation(u))],
                           c, "ai_feedback", GreetingText, NoUrl, None)

\* the conversation the page shows: .first() of the pending ones, or the new one
ChatViewConversation(db, u, c) ==
    IF EmptyConvs(db, u) # {}
    THEN CHOOSE e \in EmptyConvs(db, u) : \A d \in EmptyConvs(db, u) : e <= d
    ELSE c

ChatView(u) ==
    \E r \in {Result(ChatViewDB(DB, u, nextConvId),
                     JsonResponse(200, "page", None, NoUrl, "none"), {})} :
       /\ Commit(r.db)
       /\ nextConvId' = IF EmptyConvs(DB, u) # {} THEN nextConvId ELSE nextConvId + 1
       /\ UNCHANGED race
       /\ last' = Request("chat_view", Caller(u, "GET", 0, 0), ChatViewConversation(DB, u, nextConvId), 0,
                          None, "none", GwDefault, DB, r)

(***************************************************************************)
(* core/views.py delete_conversation                                       *)
(***************************************************************************)
\* DeleteCascade without the cascade: the row alone is deleted
DeleteCascadeRowOnly(db, c) ==
    [db EXCEPT !.convs = [k \in DOMAIN @ \ {c} |-> @[k]]]

\* conversation.delete(): the row, and by on_delete=CASCADE its interactions
\* and its review
DeleteCascade(db, c) ==
    [db EXCEPT !.convs = [k \in DOMAIN @ \ {c} |-> @[k]],
               !.inters = SelectSeq(@, LAMBDA i : i.conversation # c),
               !.reviews = {r \in @ : r.conversation # c}]

DeleteConversationResult(db, u, m, c) ==
    IF m # "POST" THEN Result(db, JsonResponse(405, "error", None, NoUrl, "none"), {})
    ELSE IF ~Owned(db, u, c) THEN Result(db, NotFound, {})
    ELSE Result(DeleteCascade(db, c), JsonResponse(200, "success", None, NoUrl, "none"), {})

DeleteConversation(u, m, c) ==
    \E r \in {DeleteConversationResult(DB, u, m, c)} :
       /\ Commit(r.db)
       /\ UNCHANGED <<nextConvId, race>>
       /\ last' = Request("delete", Caller(u, m, c, 0), IF r.resp.http = 200 THEN c ELSE 0, 0,
                          None, "none", GwDefault, DB, r)

(***************************************************************************)
(* core/views.py api_send_message                                          *)
(***************************************************************************)
ApiSendMessageResult(db, u, m, c, query, image, gw) ==
    IF m # "POST" THEN Result(db, JsonResponse(405, "error", None, NoUrl, "none"), {})
    ELSE IF ~Owned(db, u, c) THEN Result(db, NotFound, {})
    ELSE HandleChatResponse(db, c, query, image, gw)

ApiSendMessage(u, m, c, query, image, gw) ==
    \E r \in {ApiSendMessageResult(DB, u, m, c, query, image, gw)} :
       /\ Commit(r.db)
       /\ UNCHANGED <<nextConvId, race>>
       /\ last' = Request("send", Caller(u, m, c, 0), IF r.resp.http \in {404, 405} THEN 0 ELSE c, 0,
                          query, image, gw, DB, r)

(***************************************************************************)
(* core/views_helper.py api_retry_last_message                             *)
(***************************************************************************)
\* NeedsRetry without the test of last_interaction.type
NeedsRetryAnyType(log) == Len(log) > 0

\* lines 21-23: last_interaction and last_interaction.type in [...]
NeedsRetry(log) == Len(log) > 0 /\ log[Len(log)].type \in UserTypes

ApiRetryLastMessageResult(db, u, m, c, gw) ==
    IF m # "POST" THEN Result(db, JsonResponse(405, "error", None, NoUrl, "none"), {})
    ELSE IF ~Owned(db, u, c) THEN Result(db, NotFound, {})
    ELSE LET log == Log(db, c)
         IN IF NeedsRetry(log)
            THEN LET last_interaction == log[Len(log)]
                 IN HandleChatResponse(DeleteInteractions(db, {last_interaction.id}), c,
                                       last_interaction.text_content, "none", gw)
            ELSE Result(db, JsonResponse(200, "no_need_to_retry", None, NoUrl, "none"), {})

ApiRetryLastMessage(u, m, c, gw) ==
    \E r \in {ApiRetryLastMessageResult(DB, u, m, c, gw)} :
       /\ Commit(r.db)
       /\ UNCHANGED <<nextConvId, race>>
       /\ last' = Request("retry", Caller(u, m, c, 0), IF r.resp.http \in {404, 405} THEN 0 ELSE c, 0,
                          None, "none", gw, DB, r)

(***************************************************************************)
(* core/views.py api_rollback_conversation                                 *)
(***************************************************************************)
\* RollbackKeeps with id__gte in place of id__gt: the target is deleted too
RollbackKeepsStrictlyBefore(i, c, target) == i.conversation # c \/ i.id < target

\* lines 205-208: the interactions of the conversation that survive
RollbackKeeps(i, c, target) == i.conversation # c \/ i.id <= target

\* RollbackReset without "or conversation.is_completed"
RollbackResetReviewOnly(conv) ==
    IF conv.status = "review"
    THEN [conv EXCEPT !.status = "visual_loop", !.is_completed = FALSE]
    ELSE conv

\* lines 210-214
RollbackReset(conv) ==
    IF conv.status = "review" \/ conv.is_completed
    THEN [conv EXCEPT !.status = "visual_loop", !.is_completed = FALSE]
    ELSE conv

\* RollbackConversation that deletes the review of a conversation it reopens
RollbackConversationDroppingReview(db, c, target) ==
    [db EXCEPT !.inters = SelectSeq(@, LAMBDA i : RollbackKeeps(i, c, target)),
               !.convs[c] = RollbackReset(@),
               !.reviews = IF db.convs[c].status = "review" \/ db.convs[c].is_completed
                           THEN {r \in @ : r.conversation # c} ELSE @]

\* lines 205-214: the delete of the suffix and the save of the conversation
RollbackConversation(db, c, target) ==
    [db EXCEPT !.inters = SelectSeq(@, LAMBDA i : RollbackKeeps(i, c, target)),
               !.convs[c] = RollbackReset(@)]

\* ApiRollbackConversationResult with the target looked up by its id alone,
\* in whatever conversation it is
ApiRollbackConversationResultAnyTarget(db, u, m, c, target) ==
    IF m # "POST" THEN Result(db, JsonResponse(405, "error", None, NoUrl, "none"), {})
    ELSE IF ~Owned(db, u, c) \/ target \notin Ids(db.inters)
    THEN Result(db, JsonResponse(500, "error", None, NoUrl, "none"), {})
    ELSE Result(RollbackConversation(db, c, target),
                JsonResponse(200, "success", None, NoUrl, "none"), {})

\* Http404 raised by get_object_or_404 is caught by "except Exception" and
\* answered with status 500
ApiRollbackConversationResult(db, u, m, c, target) ==
    IF m # "POST" THEN Result(db, JsonResponse(405, "error", None, NoUrl, "none"), {})
    ELSE IF ~Owned(db, u, c) \/ ~(\E k \in DOMAIN Log(db, c) : Log(db, c)[k].id = target)
    THEN Result(db, JsonResponse(500, "error", None, NoUrl, "none"), {})
    ELSE Result(RollbackConversation(db, c, target),
                JsonResponse(200, "success", None, NoUrl, "none"), {})

ApiRollbackConversation(u, m, c, target) ==
    \E r \in {ApiRollbackConversationResult(DB, u, m, c, target)} :
       /\ Commit(r.db)
       /\ UNCHANGED <<nextConvId, race>>
       /\ last' = Request("rollback", Caller(u, m, c, target), IF r.resp.http = 200 THEN c ELSE 0,
                          IF r.resp.http = 200 THEN target ELSE 0,
                          None, "none", GwDefault, DB, r)

(***************************************************************************)
(* Requests in flight.  The views hold no lock and open no transaction:    *)
(* under autocommit every ORM call is a step of its own, and the steps of  *)
(* requests served by different workers interleave.                        *)
(***************************************************************************)
Workers == {"a", "b"}

\* a request not yet received: its position in the handler, the view that
\* serves it, its text, the classification its turn meets, the conversation
\* instance it loaded, the type of its user entry, the entry it deletes,
\* the position where it was interrupted, and whether it was received after
\* the other request was interrupted
IdleJob == [pc |-> "idle", kind |-> "none", text |-> None, intent |-> "none",
            snap |-> NoConv, utype |-> "none", victim |-> 0, at |-> "none",
            recovers |-> FALSE]

EmptyDB == [convs |-> <<>>, inters |-> <<>>, reviews |-> {}, nextId |-> 1]

NoRace == [origin |-> EmptyDB, jobs |-> [w \in Workers |-> IdleJob]]

\* the conversation the concurrent requests name, and their texts
RaceConv == 1
OtherText == <<"y", "o">>
RaceTexts == {ShortText, OtherText}
RaceIntents == {"has_idea", "finish"}

\* the conversation when the requests arrive: new, after a first turn, and
\* after a turn that was logged and not answered
Fresh == ChatViewDB(EmptyDB, "alice", RaceConv)
Asked == HandleChatResponse(Fresh, RaceConv, ShortText, "none", GwDefault).db
Unanswered ==
    HandleChatResponse(Asked, RaceConv, ShortText, "none",
                       [GwDefault EXCEPT !.intent = "other"]).db
RaceOrigins == {Fresh, Asked, Unanswered}

Job(w) == race.jobs[w]

\* the backend outcomes of the turn of worker w
JobGw(w) == [GwDefault EXCEPT !.intent = Job(w).intent]

\* a step of worker w that reads the database and writes nothing
Reads(w, job) ==
    /\ race' = [race EXCEPT !.jobs[w] = job]
    /\ UNCHANGED <<convs, inters, reviews, nextId, nextConvId, last, env>>

\* a step of worker w that writes the database
Writes(w, job, db) ==
    /\ race' = [race EXCEPT !.jobs[w] = job]
    /\ Commit(db)
    /\ UNCHANGED <<nextConvId, last>>

\* views.py 185: api_send_message loads the conversation
BeginSend(w, text, intent) ==
    /\ Job(w).pc = "idle"
    /\ Owned(DB, "alice", RaceConv)
    /\ Reads(w, [IdleJob EXCEPT !.pc = "loaded", !.kind = "send", !.text = text,
                                !.intent = intent, !.snap = convs[RaceConv]])

\* views_helper.py 18: api_retry_last_message loads the conversation
BeginRetry(w, intent) ==
    /\ Job(w).pc = "idle"
    /\ Owned(DB, "alice", RaceConv)
    /\ Reads(w, [IdleJob EXCEPT !.pc = "retrying", !.kind = "retry", !.intent = intent,
                                !.snap = convs[RaceConv],
                                !.recovers = \E v \in Workers \ {w} :
                                                Job(v).pc = "interrupted"])

\* views_helper.py 20-34, 44: last_interaction = conversation.interactions.last()
ReadLastToRetry(w) ==
    /\ Job(w).pc = "retrying"
    /\ IF NeedsRetry(Log(DB, RaceConv))
       THEN Reads(w, [Job(w) EXCEPT !.pc = "chosen",
                                    !.victim = LastInteraction(DB, RaceConv).id,
                                    !.text = LastInteraction(DB, RaceConv).text_content])
       ELSE Reads(w, [Job(w) EXCEPT !.pc = "done"])

\* views_helper.py 36: last_interaction.delete(), whether or not the row is
\* still stored
DeleteLast(w) ==
    /\ Job(w).pc = "chosen"
    /\ Writes(w, [Job(w) EXCEPT !.pc = "loaded"], DeleteInteractions(DB, {Job(w).victim}))

\* views_helper.py 88-93: the question of an initial_probe turn
LogQuestion(w) ==
    /\ Job(w).pc = "loaded"
    /\ Job(w).snap.status = "initial_probe"
    /\ Writes(w, [Job(w) EXCEPT !.pc = "asked"],
              CreateInteraction(DB, RaceConv, "question", Job(w).text, NoUrl, None))

\* views_helper.py 105-109: the probe and its ai_feedback
LogProbe(w) ==
    /\ Job(w).pc = "asked"
    /\ Writes(w, [Job(w) EXCEPT !.pc = "answered"],
              CreateInteraction(DB, RaceConv, "ai_feedback",
                                OrDefault(GenerateInitialProbe(GwDefault), DefaultProbeText),
                                NoUrl, None))

\* views_helper.py 111-115: conversation.save() writes every field of the
\* instance that the request loaded
SaveConversation(w) ==
    /\ Job(w).pc = "answered"
    /\ Writes(w, [Job(w) EXCEPT !.pc = "done"],
              [DB EXCEPT !.convs[RaceConv] =
                  [Job(w).snap EXCEPT !.status = "visual_loop",
                                      !.topic = Prefix(Job(w).text, TopicLen)]])

\* views_helper.py 119-122: last_interaction and the type of the user entry
ReadLast(w) ==
    /\ Job(w).pc = "loaded"
    /\ Job(w).snap.status = "visual_loop"
    /\ Reads(w, [Job(w) EXCEPT !.pc = "typed",
                                !.utype = UserInteractionType(Log(DB, RaceConv))])

\* views_helper.py 130-136: the user entry of a visual_loop turn
LogUserEntry(w) ==
    /\ Job(w).pc = "typed"
    /\ Writes(w, [Job(w) EXCEPT !.pc = "logged"],
              IF ~Falsy(Job(w).text)
              THEN CreateInteraction(DB, RaceConv, Job(w).utype, Job(w).text, NoUrl, None)
              ELSE DB)

\* views_helper.py 144-270, 286-312: the classification and the entry of its
\* branch, for an intent whose branch writes once
LogReply(w) ==
    /\ Job(w).pc = "logged"
    /\ Job(w).intent # "finish"
    /\ Writes(w, [Job(w) EXCEPT !.pc = "done"],
              IntentDispatch(DB, RaceConv, AnalyzeUserInput(JobGw(w)), JobGw(w)).db)

\* views_helper.py 144-154, 272-275: intent finish, conversation.status =
\* 'review' and conversation.save()
SaveReview(w) ==
    /\ Job(w).pc = "logged"
    /\ Job(w).intent = "finish"
    /\ Writes(w, [Job(w) EXCEPT !.pc = "closing"],
              [DB EXCEPT !.convs[RaceConv] = [Job(w).snap EXCEPT !.status = "review"]])

\* views_helper.py 277-284: the closing ai_feedback of intent finish
LogClosing(w) ==
    /\ Job(w).pc = "closing"
    /\ Writes(w, [Job(w) EXCEPT !.pc = "done"],
              CreateInteraction(DB, RaceConv, "ai_feedback", FinishGuideText, NoUrl, None))

\* views_helper.py 82-83: the loaded conversation is in review
AnswerDone(w) ==
    /\ Job(w).pc = "loaded"
    /\ Job(w).snap.status = "review"
    /\ Reads(w, [Job(w) EXCEPT !.pc = "done"])

\* the request ends where it stands: the worker is killed or loses its
\* database connection; what it wrote stays written (autocommit)
Interrupt(w) ==
    /\ Job(w).pc \notin {"idle", "done", "interrupted"}
    /\ Reads(w, [Job(w) EXCEPT !.pc = "interrupted", !.at = Job(w).pc])

RaceInit ==
    /\ env = "dialogue"
    /\ \E o \in RaceOrigins :
          /\ convs = o.convs
          /\ inters = o.inters
          /\ reviews = o.reviews
          /\ nextId = o.nextId
          /\ race = [origin |-> o, jobs |-> [w \in Workers |-> IdleJob]]
    /\ nextConvId = RaceConv + 1
    /\ last = Request("init", NoCaller, 0, 0, None, "none", GwDefault, DB, Result(DB, NoResponse, {}))

RaceNext ==
    \/ \E w \in Workers, text \in RaceTexts, intent \in RaceIntents :
          BeginSend(w, text, intent)
    \/ \E w \in Workers, intent \in RaceIntents : BeginRetry(w, intent)
    \/ \E w \in Workers : ReadLastToRetry(w)
    \/ \E w \in Workers : DeleteLast(w)
    \/ \E w \in Workers : LogQuestion(w)
    \/ \E w \in Workers : LogProbe(w)
    \/ \E w \in Workers : SaveConversation(w)
    \/ \E w \in Workers : ReadLast(w)
    \/ \E w \in Workers : LogUserEntry(w)
    \/ \E w \in Workers : LogReply(w)
    \/ \E w \in Workers : SaveReview(w)
    \/ \E w \in Workers : LogClosing(w)
    \/ \E w \in Workers : AnswerDone(w)
    \/ \E w \in Workers : Interrupt(w)

RaceSpec == RaceInit /\ [][RaceNext]_vars

(***************************************************************************)
(* The requests of the environment.  An environment E names the users, the *)
(* HTTP methods, the texts, the uploads and the backend outcomes that the  *)
(* requests are drawn from, and how many interactions may be created.      *)
(***************************************************************************)
\* the classifications of a turn: every intent, and one variation of each
\* optional field of the reply
Classifications ==
    {[GwDefault EXCEPT !.intent = i] : i \in Intents}
    \cup {[GwDefault EXCEPT !.tool = "desmos"],
          [GwDefault EXCEPT !.intent = "no_idea", !.tool = "desmos"],
          [GwDefault EXCEPT !.tool = "absent"],
          [GwDefault EXCEPT !.guide = "absent"],
          [GwDefault EXCEPT !.intent = "verify_understanding", !.guide = "absent"],
          [GwDefault EXCEPT !.intent = "explaining_image", !.evaluation = "fail"]}

\* the ways the backends fail or fall back during a visual_loop turn
Degradations ==
    {[GwDefault EXCEPT !.classify = o] : o \in ClassifyOutcomes \ {"dict"}}
    \cup {[GwDefault EXCEPT !.image = o] : o \in ImageOutcomes}
    \cup {[GwDefault EXCEPT !.vprompt = FALSE, !.genprompt = o] : o \in {"ok", "error"}}
    \cup {[GwDefault EXCEPT !.intent = "probe_deeper", !.guide = g, !.followup = o] :
             g \in {"absent", "degenerate"}, o \in {"ok", "empty", "error"}}
    \cup {[GwDefault EXCEPT !.intent = "explaining_image", !.evaluation = "fail",
                            !.hint = FALSE],
          [GwDefault EXCEPT !.tool = "desmos", !.latex = FALSE, !.guide = "absent"]}

\* the backend outcomes a turn of conversation c can meet in its phase, with
\* or without an upload
OutcomesFor(E, c, image) ==
    IF c \notin DOMAIN convs THEN {GwDefault}
    ELSE IF StartsWith(convs[c].topic, DemoMarker)
    THEN {[GwDefault EXCEPT !.image = o] : o \in E.imagegen}
    ELSE IF convs[c].status \notin {"initial_probe", "visual_loop"} THEN {GwDefault}
    ELSE IF image = "saved" THEN {[GwDefault EXCEPT !.vision = o] : o \in E.vision}
    ELSE IF convs[c].status = "initial_probe"
    THEN {[GwDefault EXCEPT !.probe = o] : o \in E.probe}
    ELSE E.turns

\* the backend outcomes a retry of conversation c can meet
RetryOutcomesFor(E, c) ==
    IF c \in DOMAIN convs /\ NeedsRetry(Log(DB, c))
    THEN OutcomesFor(E, c, "none") ELSE {GwDefault}

\* the (user, method, conversation) of a request: in a strict environment the
\* owner posts to a conversation that exists
Callers(E) ==
    IF E.strict
    THEN {[u |-> convs[c].user, m |-> "POST", c |-> c] : c \in DOMAIN convs}
    ELSE [u : E.users, m : E.methods, c : ConvIds]

\* the interaction ids a rollback request names
Targets(E, c) ==
    IF E.strict THEN {Log(DB, c)[k].id : k \in DOMAIN Log(DB, c)} ELSE 1..(nextId - 1)

SendIn(E) ==
    \E r \in Callers(E), q \in E.queries, img \in E.images :
        \E gw \in OutcomesFor(E, r.c, img) :
            ApiSendMessage(r.u, r.m, r.c, q, img, gw) /\ nextId' <= E.maxId + 1

RetryIn(E) ==
    \E r \in Callers(E) :
        \E gw \in RetryOutcomesFor(E, r.c) :
            ApiRetryLastMessage(r.u, r.m, r.c, gw) /\ nextId' <= E.maxId + 1

RollbackIn(E) ==
    \E r \in Callers(E) :
        \E t \in Targets(E, r.c) : ApiRollbackConversation(r.u, r.m, r.c, t)

DeleteIn(E) == \E r \in Callers(E) : DeleteConversation(r.u, r.m, r.c)

ChatViewIn(E) ==
    \E u \in E.users : ChatView(u) /\ nextId' <= E.maxId + 1 /\ nextConvId' <= E.maxConvs + 1

\* the dialogue: one learner, a plain text, every classification
Dialogue ==
    [users |-> {"alice"}, methods |-> {"POST"}, strict |-> TRUE,
     queries |-> {ShortText}, images |-> {"none"},
     probe |-> {"ok"}, vision |-> {"ok"}, imagegen |-> {"saved"},
     turns |-> Classifications, maxId |-> MaxId, maxConvs |-> MaxConvs]

\* the texts: every text, with and without an upload
Texts ==
    [users |-> {"alice"}, methods |-> {"POST"}, strict |-> TRUE,
     queries |-> {None, EmptyText, ShortText, LongText, GravityText, RelativityText},
     images |-> Images,
     probe |-> {"ok"}, vision |-> {"ok"}, imagegen |-> {"saved"},
     turns |-> {GwDefault}, maxId |-> MaxInputId, maxConvs |-> MaxScriptConvs]

\* the faults: every way a backend call can end
Faults ==
    [users |-> {"alice"}, methods |-> {"POST"}, strict |-> TRUE,
     queries |-> {ShortText}, images |-> {"none", "saved"},
     probe |-> ChatOutcomes, vision |-> VisionOutcomes, imagegen |-> ImageOutcomes,
     turns |-> Degradations, maxId |-> MaxInputId, maxConvs |-> MaxConvs]

\* the scripted mode: long sessions that start with a trigger text
Script ==
    [users |-> {"alice"}, methods |-> {"POST"}, strict |-> TRUE,
     queries |-> {GravityText}, images |-> {"none"},
     probe |-> {"ok"}, vision |-> {"ok"}, imagegen |-> {"saved"},
     turns |-> {GwDefault}, maxId |-> MaxScriptId, maxConvs |-> MaxScriptConvs]

\* the reopening: a dialogue driven to its end, then a text that starts the
\* scripted mode
Reopen ==
    [users |-> {"alice"}, methods |-> {"POST"}, strict |-> TRUE,
     queries |-> {ShortText, RelativityText, MarkedText}, images |-> {"none"},
     probe |-> {"ok"}, vision |-> {"ok"}, imagegen |-> {"saved"},
     turns |-> {[GwDefault EXCEPT !.intent = "finish"]},
     maxId |-> MaxReopenId, maxConvs |-> MaxScriptConvs]

\* the open door: two users, both methods, and ids that may not resolve or
\* may belong to someone else
Open ==
    [users |-> Users, methods |-> Methods, strict |-> FALSE,
     queries |-> {ShortText}, images |-> {"none"},
     probe |-> {"ok"}, vision |-> {"ok"}, imagegen |-> {"saved"},
     turns |-> {GwDefault}, maxId |-> MaxOpenId, maxConvs |-> MaxConvs]

\* after the script: the session of a learner whose conversation has run
\* the script to its closing synthesis
Closing ==
    [users |-> {"alice"}, methods |-> {"POST"}, strict |-> TRUE,
     queries |-> {GravityText}, images |-> {"none"},
     probe |-> {"ok"}, vision |-> {"ok"}, imagegen |-> {"saved"},
     turns |-> {GwDefault}, maxId |-> MaxClosingId, maxConvs |-> MaxConvs]

EnvNames == {"dialogue", "texts", "faults", "script", "reopen", "open"}

Env ==
    CASE env = "dialogue" -> Dialogue
      [] env = "texts" -> Texts
      [] env = "faults" -> Faults
      [] env = "script" -> Script
      [] env = "reopen" -> Reopen
      [] env = "open" -> Open
      [] env = "closing" -> Closing

Init ==
    /\ env \in EnvNames
    /\ convs = <<>>
    /\ inters = <<>>
    /\ reviews = {}
    /\ nextId = 1
    /\ nextConvId = 1
    /\ last = Request("init", NoCaller, 0, 0, None, "none", GwDefault, DB, Result(DB, NoResponse, {}))
    /\ race = NoRace

Next ==
    \/ ChatViewIn(Env)
    \/ SendIn(Env)
    \/ RetryIn(Env)
    \/ RollbackIn(Env)
    \/ DeleteIn(Env)

Spec == Init /\ [][Next]_vars

\* the database after a session start and n submit-turns with a text that
\* starts the script
RECURSIVE ScriptRun(_)
ScriptRun(n) ==
    IF n = 0 THEN Fresh
    ELSE HandleChatResponse(ScriptRun(n - 1), RaceConv, GravityText, "none", GwDefault).db

\* the script has given its closing synthesis: the hook, two image steps,
\* the challenge and the synthesis, one reply per turn
ClosedScript == ScriptRun(5)

ClosingInit ==
    /\ env = "closing"
    /\ convs = ClosedScript.convs
    /\ inters = ClosedScript.inters
    /\ reviews = ClosedScript.reviews
    /\ nextId = ClosedScript.nextId
    /\ nextConvId = RaceConv + 1
    /\ last = Request("init", NoCaller, 0, 0, None, "none", GwDefault, DB, Result(DB, NoResponse, {}))
    /\ race = NoRace

\* the requests served after the script has closed a conversation
ClosingSpec == ClosingInit /\ [][Next]_vars

(***************************************************************************)
(* Properties.  A step is recognised by the request record it leaves in    *)
(* last; DB is the database before the step and DB' the database after it. *)
(***************************************************************************)
RollbackDone == last.op = "rollback" /\ last.resp.status = "success"

\* C1: a successful rollback to interaction X of a conversation leaves the
\* interactions of the conversation with order <= X present, unchanged and
\* in the same order, deletes exactly the interactions of the conversation
\* with order > X (no interaction of another conversation), and leaves
\* exactly one interaction when X is the first of the conversation.
C1_RollbackDeletesExactlyTheSuffix ==
    [][RollbackDone' =>
          LET c == last'.conv
              x == last'.target
              before == Log(DB, c)
              after == Log(DB', c)
          IN /\ after = SelectSeq(before, LAMBDA i : i.id <= x)
             /\ Ids(inters) \ Ids(inters') = {i \in Ids(before) : i > x}
             /\ \E k \in DOMAIN after : after[k].id = x
             /\ (x = before[1].id => Len(after) = 1)]_vars

\* a rollback to the first interaction of a conversation has removed two or
\* more interactions and left one, while another conversation kept its own
C1_Witness ==
    /\ RollbackDone
    /\ Cardinality(last.removed) >= 2
    /\ Len(Log(DB, last.conv)) = 1
    /\ Log(DB, last.conv)[1].id = last.target
    /\ \E d \in DOMAIN convs \ {last.conv} : Len(Log(DB, d)) >= 1

\* C2: after a successful rollback the conversation is not in review and
\* not completed; a conversation that was in review or completed is in
\* visual_loop and not completed, any other keeps its phase and its flag.
C2_RollbackReopensTheConversation ==
    [][RollbackDone' =>
          LET before == convs[last'.conv]
              after == convs'[last'.conv]
          IN /\ after.status # "review"
             /\ ~after.is_completed
             /\ IF before.status = "review" \/ before.is_completed
                THEN after.status = "visual_loop" /\ after.is_completed = FALSE
                ELSE after.status = before.status
                     /\ after.is_completed = before.is_completed
             /\ after.topic = before.topic /\ after.user = before.user]_vars

\* a rollback has taken a conversation out of review
C2_Witness ==
    /\ RollbackDone
    /\ last.was.status = "review"
    /\ convs[last.conv].status = "visual_loop"
    /\ ~convs[last.conv].is_completed

\* the log ends with an entry written by the learner / by the system
EndsWithUserEntry(log) == Len(log) > 0 /\ log[Len(log)].type \in UserTypes
EndsWithSystemEntry(log) == Len(log) > 0 /\ log[Len(log)].type \in AiTypes

\* the number of entries of the log written by the learner
UserEntries(log) == Len(SelectSeq(log, LAMBDA i : i.type \in UserTypes))

\* the insertion orders of the log, in log order
IdSeq(log) == [k \in DOMAIN log |-> log[k].id]

RetryServed == last.op = "retry" /\ last.conv # 0
SendServed == last.op = "send" /\ last.conv # 0 /\ last.query # None

\* C3: a retry of a conversation whose last entry is user-authored removes
\* exactly that entry and appends exactly one new user entry with the same
\* text followed by one or more system replies; the earlier entries are
\* untouched and the number of user entries is the same as before.
C3_RetryReplacesTheLastUserEntry ==
    [][(RetryServed' /\ EndsWithUserEntry(Log(DB, last'.conv))) =>
          LET before == Log(DB, last'.conv)
              after == Log(DB', last'.conv)
              n == Len(before)
          IN /\ Ids(inters) \ Ids(inters') = {before[n].id}
             /\ Len(after) >= n + 1
             /\ SubSeq(after, 1, n - 1) = SubSeq(before, 1, n - 1)
             /\ after[n].type \in UserTypes
             /\ after[n].text_content = before[n].text_content
             /\ after[n].id \notin Ids(inters)
             /\ \A k \in (n + 1)..Len(after) : after[k].type \in AiTypes
             /\ UserEntries(after) = UserEntries(before)]_vars

\* C4: a retry of a conversation whose last entry is system-authored, or
\* whose log is empty, is answered no_need_to_retry and changes nothing:
\* the log, the phase, the topic and the completed flag are as before and
\* no backend is called.
C4_RetryAfterSystemEntryIsNoOp ==
    [][(RetryServed' /\ (Len(Log(DB, last'.conv)) = 0
                         \/ EndsWithSystemEntry(Log(DB, last'.conv)))) =>
          /\ last'.resp.http = 200
          /\ last'.resp.status = "no_need_to_retry"
          /\ inters' = inters
          /\ convs' = convs
          /\ reviews' = reviews
          /\ last'.calls = {}]_vars

\* a retry of a conversation that ends with a system entry was answered
\* no_need_to_retry
C4_Witness ==
    /\ RetryServed
    /\ last.resp.status = "no_need_to_retry"
    /\ EndsWithSystemEntry(Log(DB, last.conv))
    /\ Len(Log(DB, last.conv)) >= 3

\* C5: in every reachable state a completed conversation has exactly one
\* review and a conversation that is not completed has none.
C5_CompletedIffOneReview ==
    \A c \in DOMAIN convs :
        Cardinality({r \in reviews : r.conversation = c})
            = IF convs[c].is_completed THEN 1 ELSE 0

\* C6: in every reachable state the phase is one of initial_probe,
\* visual_loop, review, and outside initial_probe the topic is not empty.
C6_TopicSetOutsideInitialProbe ==
    \A c \in DOMAIN convs :
        /\ convs[c].status \in Statuses
        /\ (convs[c].status # "initial_probe" => convs[c].topic # <<>>)

\* a step that serves a submit-turn, a retry or a session start
NonRollbackStep == last'.op \in {"send", "retry", "chat_view"}

\* the entries of log whose insertion order is in ids, in log order
Restrict(log, ids) == SelectSeq(IdSeq(log), LAMBDA i : i \in ids)

\* the entries created by the step have insertion orders greater than every
\* entry present before it
NewEntriesAreLatest == \A i \in Ids(inters') \ Ids(inters) : \A j \in Ids(inters) : i > j

\* C7 as stated: across a submit-turn, a retry or a session start every
\* entry present before the step is present after it, in the same relative
\* order, and the new entries have orders greater than all existing ones.
C7_AppendOnlyExceptRollback ==
    [][NonRollbackStep =>
          /\ \A c \in DOMAIN convs :
                Restrict(Log(DB', c), Ids(inters)) = IdSeq(Log(DB, c))
          /\ NewEntriesAreLatest]_vars

\* the entry a retry step removes: the last entry of the retried
\* conversation when it is user-authored
RetryRemoves ==
    IF last'.op = "retry" /\ last'.conv # 0 /\ EndsWithUserEntry(Log(DB, last'.conv))
    THEN {Log(DB, last'.conv)[Len(Log(DB, last'.conv))].id}
    ELSE {}

\* C7 amended: across a submit-turn or a session start every entry present
\* before the step is present after it in the same relative order; across a
\* retry the same holds of every entry but the last entry of the retried
\* conversation when that entry is user-authored, which is removed; the new
\* entries have orders greater than all entries present before the step.
C7_AppendOnlyExceptRollbackAndRetry ==
    [][NonRollbackStep =>
          /\ \A c \in DOMAIN convs :
                Restrict(Log(DB', c), Ids(inters))
                    = Restrict(Log(DB, c), Ids(inters) \ RetryRemoves)
          /\ Ids(inters) \ Ids(inters') = RetryRemoves
          /\ NewEntriesAreLatest]_vars

\* a retry has removed the last user entry of a conversation of three or
\* more entries and appended new ones, while another conversation has entries
C7_Witness ==
    /\ RetryServed
    /\ Cardinality(last.removed) = 1
    /\ Cardinality(last.created) >= 2
    /\ Len(Log(DB, last.conv)) >= 4
    /\ \E d \in DOMAIN convs \ {last.conv} : Len(Log(DB, d)) >= 1

\* a submit-turn with a text, served in initial_probe, that does not start
\* the scripted mode
ProbeTurn ==
    /\ SendServed
    /\ last.was.status = "initial_probe"
    /\ ~Contains(RemoveChar(RemoveChar(last.query, QMarkWide), QMark), DemoTrigger1)
    /\ ~Contains(last.query, DemoTrigger2a)
    /\ ~Contains(last.query, DemoTrigger2b)

\* the step appends to the conversation exactly a question with this text
\* and an ai_feedback, moves it to visual_loop and sets its topic to the
\* first 30 characters of the text
AppendsQuestionAndFeedback(c, text) ==
    LET before == Log(DB, c)
        after == Log(DB', c)
        n == Len(before)
    IN /\ Len(after) = n + 2
       /\ SubSeq(after, 1, n) = before
       /\ Ids(inters') \ Ids(inters) = {after[n + 1].id, after[n + 2].id}
       /\ Ids(inters) \ Ids(inters') = {}
       /\ after[n + 1].type = "question"
       /\ after[n + 1].text_content = text
       /\ after[n + 2].type = "ai_feedback"
       /\ convs'[c].status = "visual_loop"
       /\ convs'[c].topic = SubSeq(text, 1, Min(TopicLen, Len(text)))

\* C8 as stated: a submit-turn in initial_probe with a text t that does not
\* start the scripted mode appends exactly a question with text t and an
\* ai_feedback, sets the phase to visual_loop and the topic to t[:30].
C8_ProbeTurnStoresTheText ==
    [][ProbeTurn' => AppendsQuestionAndFeedback(last'.conv, last'.query)]_vars

\* C8 amended: the question holds, and the topic is cut from, the text t, or
\* the upload placeholder when t is empty and an uploaded image was saved.
C8_ProbeTurnStoresTheTextOrThePlaceholder ==
    [][ProbeTurn' =>
          AppendsQuestionAndFeedback(last'.conv,
              IF last'.query = EmptyText /\ last'.image = "saved"
              THEN UploadPlaceholderText ELSE last'.query)]_vars

\* a submit-turn with an empty text and a saved upload was served in
\* initial_probe: the topic is the placeholder
C8_Witness ==
    /\ ProbeTurn
    /\ last.query = EmptyText
    /\ last.image = "saved"
    /\ Cardinality(last.created) = 2
    /\ convs[last.conv].status = "visual_loop"
    /\ convs[last.conv].topic = UploadPlaceholderText

\* C9: when the call of the reasoning backend fails (no key, or an error)
\* during an initial_probe submit-turn without an image, the reply and the
\* logged ai_feedback are the fixed default probe text, the status is
\* success and the phase becomes visual_loop.
C9_ProbeFallsBackToTheDefaultText ==
    [][(ProbeTurn' /\ last'.image = "none"
                   /\ "generate_initial_probe" \in last'.calls
                   /\ last'.gw.probe \in {"nokey", "error"}) =>
          LET after == Log(DB', last'.conv)
          IN /\ last'.resp.status = "success"
             /\ last'.resp.answer = DefaultProbeText
             /\ after[Len(after)].type = "ai_feedback"
             /\ after[Len(after)].text_content = DefaultProbeText
             /\ convs'[last'.conv].status = "visual_loop"]_vars

\* C10: every submit-turn served in initial_probe or visual_loop, whatever
\* the backends answer, leaves a system-authored entry last in the log and
\* returns a reply.
C10_TurnEndsWithSystemReply ==
    [][(SendServed' /\ last'.was.status \in {"initial_probe", "visual_loop"}) =>
          /\ EndsWithSystemEntry(Log(DB', last'.conv))
          /\ last'.resp.http = 200
          /\ last'.resp.status = "success"
          /\ last'.resp.answer # None]_vars

\* the text the handler works with: the upload placeholder when the text is
\* empty and the upload was saved
StoredText ==
    IF last'.query = EmptyText /\ last'.image = "saved"
    THEN UploadPlaceholderText ELSE last'.query

\* the text starts the scripted mode of a conversation with this log
StartsScript(log, text) ==
    \/ Contains(RemoveChar(RemoveChar(text, QMarkWide), QMark), DemoTrigger1)
    \/ Len(log) <= 1 /\ (Contains(text, DemoTrigger2a) \/ Contains(text, DemoTrigger2b))

\* a step that serves a submit-turn with a text outside the scripted mode
PlainTurn ==
    /\ SendServed'
    /\ ~StartsWith(convs[last'.conv].topic, DemoMarker)
    /\ ~StartsScript(Log(DB, last'.conv), StoredText)

\* a plain submit-turn in visual_loop without a saved upload: the turn is
\* classified
LoopTurn ==
    /\ PlainTurn
    /\ convs[last'.conv].status = "visual_loop"
    /\ last'.image # "saved"

\* the entries the step appends to the log of conversation c
Appended(c) == SubSeq(Log(DB', c), Len(Log(DB, c)) + 1, Len(Log(DB', c)))

\* the step keeps the entries of conversation c and appends the entry of the
\* learner, when the text is not empty, and after it exactly one entry
AppendsUserEntryAndOne(c) ==
    LET new == Appended(c)
    IN /\ Len(Log(DB', c)) >= Len(Log(DB, c)) + 1
       /\ IdSeq(SubSeq(Log(DB', c), 1, Len(Log(DB, c)))) = IdSeq(Log(DB, c))
       /\ Ids(inters') \ Ids(inters) = Ids(new)
       /\ Ids(inters) \ Ids(inters') = {}
       /\ Len(new) = IF StoredText = EmptyText THEN 1 ELSE 2
       /\ (Len(new) = 2 => /\ new[1].type \in UserTypes
                           /\ new[1].text_content = StoredText)

\* the classification names no intent that the dispatch handles
UnrecognisedIntent(gw) ==
    \/ gw.classify \in {"notjson", "nokey", "error"}
    \/ gw.classify = "dict" /\ gw.intent \notin {"probe_deeper", "no_idea", "has_idea",
                                                  "verify_understanding", "finish",
                                                  "explaining_image"}

\* C11: in visual_loop, a turn whose classification returns an intent
\* outside the recognised set (the unknown intent of a parse failure
\* included) appends, after the user entry, exactly one ai_feedback with the
\* generic "did not understand" text, and leaves the phase unchanged.
C11_UnrecognisedIntentIsAnswered ==
    [][(LoopTurn /\ UnrecognisedIntent(last'.gw)) =>
          LET new == Appended(last'.conv)
          IN /\ AppendsUserEntryAndOne(last'.conv)
             /\ new[Len(new)].type = "ai_feedback"
             /\ new[Len(new)].text_content = NotUnderstoodText
             /\ convs'[last'.conv].status = "visual_loop"]_vars

\* C12: the user turn that follows a finish (the conversation is in review)
\* is logged as a user_synthesis entry, exactly one review exists for the
\* conversation afterwards, and the completed flag is true.
C12_TurnInReviewIsTheSynthesis ==
    [][(PlainTurn /\ convs[last'.conv].status = "review") =>
          LET new == Appended(last'.conv)
          IN /\ Len(new) >= 1
             /\ new[1].type = "user_synthesis"
             /\ new[1].text_content = StoredText
             /\ Cardinality({r \in reviews' : r.conversation = last'.conv}) = 1
             /\ convs'[last'.conv].is_completed]_vars

\* C13: no submit-turn and no retry moves the phase of a conversation
\* backward: from review to visual_loop or initial_probe, or from
\* visual_loop to initial_probe.
C13_OnlyRollbackMovesBackward ==
    [][(last'.op \in {"send", "retry"} /\ last'.conv # 0) =>
          LET before == convs[last'.conv].status
              after == convs'[last'.conv].status
          IN /\ ~(before = "review" /\ after \in {"visual_loop", "initial_probe"})
             /\ ~(before = "visual_loop" /\ after = "initial_probe")]_vars

IntentTurn(intent) ==
    LoopTurn /\ last'.gw.classify = "dict" /\ last'.gw.intent = intent

\* C15: in visual_loop, a turn classified has_idea with tool
\* image_generation appends, after the user entry, exactly one ai_image
\* whose image reference is not empty, whether the image backend succeeds
\* or fails, and the phase stays visual_loop.
C15_HasIdeaAppendsOneImage ==
    [][(IntentTurn("has_idea") /\ last'.gw.tool = "image_generation") =>
          LET new == Appended(last'.conv)
          IN /\ AppendsUserEntryAndOne(last'.conv)
             /\ new[Len(new)].type = "ai_image"
             /\ new[Len(new)].image_url \notin {NoUrl, ""}
             /\ last'.resp.image_url = new[Len(new)].image_url
             /\ convs'[last'.conv].status = "visual_loop"]_vars

\* a has_idea turn was served while the image backend failed: the log ends
\* with an ai_image that carries a placeholder
C15_Witness ==
    /\ SendServed
    /\ last.was.status = "visual_loop"
    /\ last.gw.intent = "has_idea" /\ last.gw.tool = "image_generation"
    /\ last.gw.image = "error"
    /\ "generate_image" \in last.calls
    /\ Cardinality(last.created) = 2
    /\ LastInteraction(DB, last.conv).type = "ai_image"
    /\ LastInteraction(DB, last.conv).image_url = GenerateImage("error")

\* C16: after a verify_understanding turn the stored text of the
\* ai_feedback it appended holds the guidance text and the challenge block
\* that the response returned.
C16_ChallengeIsStored ==
    [][IntentTurn("verify_understanding") =>
          LET new == Appended(last'.conv)
          IN /\ Len(new) >= 1
             /\ new[Len(new)].type = "ai_feedback"
             /\ last'.resp.extra = "challenge"
             /\ StartsWith(new[Len(new)].text_content, last'.resp.answer)
             /\ Contains(new[Len(new)].text_content, <<"<CHALLENGE>">>)]_vars

\* the ids of the entries whose passed-marker the step sets
NewlyPassed ==
    {i \in Ids(inters') :
        /\ \E k \in DOMAIN inters' : inters'[k].id = i /\ inters'[k].is_passed
        /\ ~\E k \in DOMAIN inters : inters[k].id = i /\ inters[k].is_passed}

\* C17: on an explaining_image turn evaluated pass, with the learner
\* interpreting the ai_image that ends the log, the passed-marker set is the
\* one of that ai_image and no other marker changes.
C17_PassMarksTheImage ==
    [][(IntentTurn("explaining_image") /\ last'.gw.evaluation = "pass"
           /\ LastInteraction(DB, last'.conv).type = "ai_image") =>
          NewlyPassed = {LastInteraction(DB, last'.conv).id}]_vars

\* C18: a finish turn in visual_loop sets the phase to review, appends
\* after the user entry exactly one closing ai_feedback, creates no review
\* and leaves the completed flag false.
C18_FinishOpensTheReview ==
    [][IntentTurn("finish") =>
          LET new == Appended(last'.conv)
          IN /\ AppendsUserEntryAndOne(last'.conv)
             /\ new[Len(new)].type = "ai_feedback"
             /\ new[Len(new)].text_content = FinishGuideText
             /\ convs'[last'.conv].status = "review"
             /\ convs'[last'.conv].is_completed = FALSE
             /\ reviews' = reviews
             /\ {r \in reviews' : r.conversation = last'.conv} = {}]_vars

\* a finish turn was served in visual_loop: the conversation is in review
C18_Witness ==
    /\ SendServed
    /\ last.was.status = "visual_loop"
    /\ last.gw.intent = "finish"
    /\ Cardinality(last.created) = 2
    /\ LastInteraction(DB, last.conv).text_content = FinishGuideText
    /\ convs[last.conv].status = "review"
    /\ ~convs[last.conv].is_completed

\* what a reader of conversation c sees: the entries of the log in order, the
\* phase and the topic
View(db, c) ==
    [log |-> [k \in DOMAIN Log(db, c) |->
                 [type |-> Log(db, c)[k].type, text |-> Log(db, c)[k].text_content]],
     status |-> db.convs[c].status,
     topic |-> db.convs[c].topic]

\* the database after a submit-turn served alone
TurnAlone(db, text, intent) ==
    HandleChatResponse(db, RaceConv, text, "none", [GwDefault EXCEPT !.intent = intent]).db

\* both concurrent requests are of this kind and have been served
BothServed(kind) == \A w \in Workers : Job(w).pc = "done" /\ Job(w).kind = kind

\* C19: when two submit-turns issued concurrently on one conversation have
\* both been served, the log and the phase are those of the two turns served
\* one after the other, in one of the two orders.
C19_ConcurrentTurnsAreSerial ==
    BothServed("send") =>
        \E v, w \in Workers :
            /\ v # w
            /\ View(DB, RaceConv)
                   = View(TurnAlone(TurnAlone(race.origin, Job(v).text, Job(v).intent),
                                    Job(w).text, Job(w).intent),
                          RaceConv)

\* C20: when two retries issued concurrently on a conversation whose last
\* entry is user-authored have both been served, the log holds one copy of
\* the retried user entry: as many user entries as before.
C20_ConcurrentRetriesDoNotDuplicate ==
    (BothServed("retry") /\ EndsWithUserEntry(Log(race.origin, RaceConv))) =>
        UserEntries(Log(DB, RaceConv)) = UserEntries(Log(race.origin, RaceConv))

\* the submit-turn of worker v was interrupted after its user entry was
\* logged and before its reply was, and the retry of worker w, received
\* after the interruption and classified as the turn was, has been served
RetriedAfterInterruption(v, w) ==
    /\ Job(v).kind = "send"
    /\ Job(v).pc = "interrupted"
    /\ Job(v).at \in {"asked", "logged", "closing"}
    /\ Job(w).kind = "retry"
    /\ Job(w).recovers
    /\ Job(w).pc = "done"
    /\ Job(w).intent = Job(v).intent

\* C21: after a turn was interrupted between the logging of its user entry
\* and the logging of its reply, a subsequent retry leaves the log with
\* exactly one copy of that user entry followed by a reply entry, and the
\* conversation in the phase the completed turn would have left it in.
C21_RetryRecoversAnInterruptedTurn ==
    \A v, w \in Workers :
        RetriedAfterInterruption(v, w) =>
            LET log == Log(DB, RaceConv)
                n == Len(log)
                whole == TurnAlone(race.origin, Job(v).text, Job(v).intent)
            IN /\ UserEntries(log) = UserEntries(Log(race.origin, RaceConv)) + 1
               /\ n >= 2
               /\ log[n].type \in AiTypes
               /\ log[n - 1].type \in UserTypes
               /\ log[n - 1].text_content = Job(v).text
               /\ convs[RaceConv].status = whole.convs[RaceConv].status

\* the conversation the request names exists and belongs to the caller
CallerOwns(caller) ==
    caller.c \in DOMAIN convs /\ convs[caller.c].user = caller.u

\* the interaction the request names is one of the conversation it names
TargetInConversation(caller) ==
    \E k \in DOMAIN inters :
        inters[k].id = caller.t /\ inters[k].conversation = caller.c

\* a step that serves a POST submit-turn, retry or rollback whose ids do not
\* resolve for the caller
UnresolvedRequest ==
    /\ last'.op \in {"send", "retry", "rollback"}
    /\ last'.caller.m = "POST"
    /\ \/ ~CallerOwns(last'.caller)
       \/ last'.op = "rollback" /\ ~TargetInConversation(last'.caller)

\* C22: a submit-turn, retry or rollback whose conversation id does not
\* resolve or does not belong to the caller, and a rollback whose target
\* does not belong to the conversation, is answered with an error and
\* changes nothing: no interaction added or deleted, every phase, topic and
\* completed flag as before.
C22_UnresolvedRequestChangesNothing ==
    [][UnresolvedRequest =>
          /\ last'.resp.http >= 400
          /\ last'.resp.status # "success"
          /\ inters' = inters
          /\ convs' = convs
          /\ reviews' = reviews
          /\ last'.calls = {}]_vars

\* a rollback of the caller's own conversation named an interaction of
\* another conversation, older than entries of its own, and was answered
\* with an error
C22_Witness ==
    /\ last.op = "rollback"
    /\ last.caller.m = "POST"
    /\ CallerOwns(last.caller)
    /\ \E k \in DOMAIN inters :
          inters[k].id = last.caller.t /\ inters[k].conversation # last.caller.c
    /\ \E k \in DOMAIN inters :
          inters[k].id > last.caller.t /\ inters[k].conversation = last.caller.c
    /\ last.resp.http = 500

\* the rows of the interaction table that belong to conversation b
RowsOf(table, b) == SelectSeq(table, LAMBDA i : i.conversation = b)

\* C23: a submit-turn, retry, rollback or delete that names conversation A
\* leaves every other conversation B as it was: its row (phase, topic,
\* completed flag), its log and its review; and no interaction belongs to
\* two conversations: every stored interaction has an id of its own.
C23_OtherConversationsAreUntouched ==
    [][last'.op \in {"send", "retry", "rollback", "delete"} =>
          /\ \A b \in DOMAIN convs \ {last'.caller.c} :
                /\ b \in DOMAIN convs'
                /\ convs'[b] = convs[b]
                /\ RowsOf(inters', b) = RowsOf(inters, b)
                /\ {r \in reviews' : r.conversation = b} = {r \in reviews : r.conversation = b}
          /\ \A k, l \in DOMAIN inters' : inters'[k].id = inters'[l].id => k = l]_vars

\* a retry has removed an entry of its conversation and appended new ones
\* while another conversation holds a younger entry than the removed one
C23_Witness ==
    /\ last.op = "retry"
    /\ last.conv # 0
    /\ last.created # {}
    /\ \E r \in last.removed :
          \E k \in DOMAIN inters :
              inters[k].conversation # last.conv /\ inters[k].id > r

\* the reply the script gives to the k-th user turn after the one that
\* started it: the opening hook to the starting turn, then the three image
\* steps, the challenge and the closing synthesis
ScriptReply(k) ==
    CASE k = 0 -> DemoHookText
      [] k \in {1, 2, 3} -> DemoStepText(k)
      [] k = 4 -> DemoChallengeGuide
      [] OTHER -> DemoFinishGuide

\* a step that serves a submit-turn in scripted mode on a conversation made
\* by session start: the turn starts the script on the greeting alone, or
\* the script runs and the log ends with its last reply
ScriptedTurn ==
    /\ SendServed'
    /\ Len(Log(DB, last'.conv)) >= 1
    /\ Log(DB, last'.conv)[1].text_content = GreetingText
    /\ \/ /\ Len(Log(DB, last'.conv)) = 1
          /\ StartsScript(Log(DB, last'.conv), StoredText)
       \/ /\ StartsWith(convs[last'.conv].topic, DemoMarker)
          /\ EndsWithSystemEntry(Log(DB, last'.conv))
          /\ UserEntries(Log(DB, last'.conv)) >= 1

\* C24: on a conversation made by session start whose first text starts the
\* scripted mode, the successive user turns receive the script in order, no
\* step skipped or repeated: the hook, image steps 1, 2 and 3, the
\* challenge, the closing synthesis; no scripted turn calls the intent
\* classification.
C24_ScriptRunsInOrder ==
    [][ScriptedTurn =>
          /\ StartsWith(last'.resp.answer, ScriptReply(UserEntries(Log(DB, last'.conv))))
          /\ "analyze_user_input" \notin last'.calls]_vars

\* the first user turn of conversation c was served in normal mode: the
\* conversation has left initial_probe and carries no script marker
StartedInNormalMode(c) ==
    /\ convs[c].status \in {"visual_loop", "review"}
    /\ ~StartsWith(convs[c].topic, DemoMarker)

\* C25: a conversation whose first user turn was served in normal mode
\* never enters the scripted mode: no later submit-turn or retry, whatever
\* its text and whatever rollbacks came before, gives it the script marker
\* or a reply of the script.
C25_NormalModeNeverBecomesScripted ==
    [][(last'.op \in {"send", "retry"} /\ last'.conv # 0
           /\ StartedInNormalMode(last'.conv)) =>
          /\ ~StartsWith(convs'[last'.conv].topic, DemoMarker)
          /\ last'.resp.answer # DemoHookText]_vars

\* the reviews stored for conversation c
ReviewsOf(c) == {r \in reviews : r.conversation = c}

\* C26: in every reachable state each conversation has at most one review,
\* and every review belongs to a stored conversation that is in the review
\* phase.
C26_AtMostOneReviewAndOnlyInReview ==
    /\ \A c \in DOMAIN convs : Cardinality(ReviewsOf(c)) <= 1
    /\ \A r \in reviews :
          /\ r.conversation \in DOMAIN convs
          /\ convs[r.conversation].status = "review"

\* the script has closed a conversation that never was in review: the
\* final review went out in the response, the conversation is completed
\* and in visual_loop, and no review is stored for it
C26_Witness ==
    /\ SendServed
    /\ last.resp.extra = "final_review"
    /\ convs[last.conv].is_completed
    /\ convs[last.conv].status = "visual_loop"
    /\ ReviewsOf(last.conv) = {}

\* C27: a POST delete of a conversation of the caller removes the
\* conversation with all of its interactions and its review: afterwards no
\* interaction and no review refers to it, and the interactions of the
\* other conversations are all kept; a delete request that is not a POST
\* removes nothing.
C27_DeleteCascades ==
    [][last'.op = "delete" =>
          LET c == last'.caller.c
          IN /\ (last'.caller.m = "POST" /\ CallerOwns(last'.caller)) =>
                   /\ last'.resp.status = "success"
                   /\ c \notin DOMAIN convs'
                   /\ \A k \in DOMAIN inters' : inters'[k].conversation # c
                   /\ \A r \in reviews' : r.conversation # c
                   /\ inters' = SelectSeq(inters, LAMBDA i : i.conversation # c)
             /\ last'.caller.m # "POST" =>
                   /\ last'.resp.http = 405
                   /\ convs' = convs
                   /\ inters' = inters
                   /\ reviews' = reviews]_vars

\* a delete has removed a conversation with two or more interactions while
\* another conversation keeps its own
C27_Witness ==
    /\ last.op = "delete"
    /\ last.resp.status = "success"
    /\ last.caller.c \notin DOMAIN convs
    /\ Cardinality(last.removed) >= 2
    /\ \E d \in DOMAIN convs : Len(Log(DB, d)) >= 1

\* a plain submit-turn in visual_loop, with or without an upload
VisualTurn == PlainTurn /\ convs[last'.conv].status = "visual_loop"

\* the step appends no entry of the learner
UserEntryOmitted ==
    \/ Appended(last'.conv) = <<>>
    \/ Appended(last'.conv)[1].type \notin UserTypes

\* the user entry that the step appends is a probe_answer exactly when the
\* log ended with an ai_feedback, a user_interpretation otherwise
UserEntryTypedByPredecessor ==
    LET before == Log(DB, last'.conv)
        entry == Appended(last'.conv)[1]
    IN /\ entry.type \in {"probe_answer", "user_interpretation"}
       /\ entry.type = "probe_answer"
             <=> (Len(before) > 0 /\ before[Len(before)].type = "ai_feedback")

\* C28 as stated: in visual_loop outside the script the user entry is a
\* probe_answer exactly when the entry before it is an ai_feedback and a
\* user_interpretation otherwise, and it is omitted only when the text is
\* empty and no image is attached.
C28_UserEntryTypedAndKept ==
    [][VisualTurn =>
          /\ ~UserEntryOmitted => UserEntryTypedByPredecessor
          /\ UserEntryOmitted => (last'.query = EmptyText /\ last'.image = "none")]_vars

\* C28 amended: the user entry is omitted exactly when the text is empty and
\* no attached image was stored (none attached, or its file not written);
\* the entry has the type its predecessor gives it and holds the text, or
\* the upload placeholder for an empty text with a stored image.
C28_UserEntryTypedAndKeptUnlessNothingStored ==
    [][VisualTurn =>
          /\ ~UserEntryOmitted =>
                /\ UserEntryTypedByPredecessor
                /\ Appended(last'.conv)[1].text_content = StoredText
          /\ UserEntryOmitted <=> (last'.query = EmptyText /\ last'.image # "saved")]_vars

\* a submit-turn with an empty text and an upload that could not be stored
\* was served in visual_loop: the reply is the only entry it appended
C28_Witness ==
    /\ SendServed
    /\ last.was.status = "visual_loop"
    /\ ~StartsWith(last.was.topic, DemoMarker)
    /\ last.query = EmptyText
    /\ last.image = "failed"
    /\ Cardinality(last.created) = 1
    /\ LastInteraction(DB, last.conv).type \in AiTypes
    /\ LastInteraction(DB, last.conv).id \in last.created

\* the intents of the dispatch that do not end the visual loop
LoopIntents ==
    {"probe_deeper", "has_idea", "no_idea", "verify_understanding", "explaining_image"}

\* C29: in visual_loop a turn classified with any intent but finish
\* (probe_deeper, has_idea, no_idea, verify_understanding, explaining_image
\* evaluated pass or fail) leaves the phase visual_loop and the topic and
\* the completed flag as they were.
C29_LoopIntentsKeepThePhase ==
    [][(\E i \in LoopIntents : IntentTurn(i)) =>
          /\ convs'[last'.conv].status = "visual_loop"
          /\ convs'[last'.conv].topic = convs[last'.conv].topic
          /\ convs'[last'.conv].is_completed = convs[last'.conv].is_completed
          /\ convs'[last'.conv].user = convs[last'.conv].user]_vars

\* a verify_understanding turn was served in visual_loop and answered with
\* a challenge: the conversation is still in visual_loop
C29_Witness ==
    /\ SendServed
    /\ last.was.status = "visual_loop"
    /\ last.gw.classify = "dict"
    /\ last.gw.intent = "verify_understanding"
    /\ last.resp.extra = "challenge"
    /\ Cardinality(last.created) = 2
    /\ convs[last.conv] = last.was

\* the step appends the user entry and one ai_feedback that holds the reply
\* of the image analysis, classifies nothing and keeps the phase
AnswersWithImageAnalysis ==
    LET new == Appended(last'.conv)
    IN /\ Len(new) = 2
       /\ Ids(inters) \ Ids(inters') = {}
       /\ Ids(inters') \ Ids(inters) = Ids(new)
       /\ new[1].type \in UserTypes
       /\ new[1].text_content = StoredText
       /\ new[2].type = "ai_feedback"
       /\ new[2].text_content = last'.resp.answer
       /\ last'.calls = {"analyze_image_content"}
       /\ convs'[last'.conv] = convs[last'.conv]

\* C30 as stated: in visual_loop a turn that carries an attached image
\* appends the user entry and exactly one ai_feedback holding the image
\* analysis, never calls the intent classification and keeps the phase.
C30_ImageTurnIsAnalysed ==
    [][(VisualTurn /\ last'.image # "none") => AnswersWithImageAnalysis]_vars

\* C30 amended: the same of a turn whose attached image was stored; a turn
\* whose image file could not be written is served as a turn without image.
C30_StoredImageTurnIsAnalysed ==
    [][(VisualTurn /\ last'.image = "saved") =>
          /\ AnswersWithImageAnalysis
          /\ Appended(last'.conv)[1].image_url # NoUrl]_vars

\* a turn with a stored image was served in visual_loop while the vision
\* backend failed: the log ends with the user entry that refers to the
\* upload and an ai_feedback
C30_Witness ==
    /\ SendServed
    /\ last.was.status = "visual_loop"
    /\ ~StartsWith(last.was.topic, DemoMarker)
    /\ last.image = "saved"
    /\ last.gw.vision = "error"
    /\ last.calls = {"analyze_image_content"}
    /\ Cardinality(last.created) = 2
    /\ LastInteraction(DB, last.conv).type = "ai_feedback"
    /\ LastInteraction(DB, last.conv).text_content = last.resp.answer

\* the log of the conversation when the step classifies: the log before
\* the step and, after it, the user entry of the turn when one was logged
LogAtClassification ==
    LET before == Log(DB, last'.conv)
        new == Appended(last'.conv)
    IN IF ~UserEntryOmitted THEN Append(before, new[1]) ELSE before

\* C31: the context given to the intent classification holds the min(5, n)
\* most recent entries of the log of n entries, oldest first, and its last
\* element is the user entry of the turn when the turn logged one.
C31_ContextIsTheLastFiveEntries ==
    [][(LoopTurn /\ "analyze_user_input" \in last'.calls) =>
          LET log == LogAtClassification
              n == Len(log)
              ctx == last'.context
              m == IF n < 5 THEN n ELSE 5
          IN /\ Len(ctx) = m
             /\ \A k \in 1..m :
                   /\ ctx[k].id = log[n - m + k].id
                   /\ ctx[k].type = log[n - m + k].type
             /\ \A k \in 1..(m - 1) : ctx[k].id < ctx[k + 1].id
             /\ ~UserEntryOmitted =>
                   /\ ctx[m].id = Appended(last'.conv)[1].id
                   /\ ctx[m].text = StoredText]_vars

\* a turn was classified on a log of six entries: the context holds five,
\* the greeting is left out and the user entry of the turn comes last
C31_Witness ==
    /\ SendServed
    /\ last.was.status = "visual_loop"
    /\ "analyze_user_input" \in last.calls
    /\ Len(last.context) = 5
    /\ Len(Log(DB, last.conv)) >= 7
    /\ last.context[1].id > Log(DB, last.conv)[1].id
    /\ last.context[5].type \in UserTypes
    /\ last.context[5].id \in last.created

\* C32: in visual_loop, a turn classified has_idea or no_idea with the tool
\* desmos appends, after the user entry, exactly one ai_image whose
\* description holds the plot expression and whose text is the guide text
\* of the response; the image backend is not called and the response
\* carries the plot expression.
C32_SymbolicPlotIsLoggedWithoutImage ==
    [][((IntentTurn("has_idea") \/ IntentTurn("no_idea")) /\ last'.gw.tool = "desmos") =>
          LET new == Appended(last'.conv)
              entry == new[Len(new)]
              expression == IF last'.gw.latex THEN <<"LATEX">> ELSE <<>>
          IN /\ AppendsUserEntryAndOne(last'.conv)
             /\ entry.type = "ai_image"
             /\ entry.image_prompt = <<"DESMOS: ">> \o expression
             /\ entry.text_content = last'.resp.answer
             /\ entry.text_content # <<>>
             /\ entry.image_url = NoUrl
             /\ "generate_image" \notin last'.calls
             /\ "generate_visual_prompt" \notin last'.calls
             /\ last'.resp.http = 200
             /\ "desmos_latex" \in DOMAIN last'.resp
             /\ last'.resp.desmos_latex = expression]_vars

\* a no_idea turn asked for the symbolic plot: the log ends with an
\* ai_image that holds the expression and no image reference
C32_Witness ==
    /\ SendServed
    /\ last.was.status = "visual_loop"
    /\ last.gw.classify = "dict"
    /\ last.gw.intent = "no_idea" /\ last.gw.tool = "desmos"
    /\ Cardinality(last.created) = 2
    /\ LastInteraction(DB, last.conv).type = "ai_image"
    /\ LastInteraction(DB, last.conv).image_prompt = <<"DESMOS: ", "LATEX">>
    /\ LastInteraction(DB, last.conv).image_url = NoUrl
    /\ "desmos_latex" \in DOMAIN last.resp
    /\ last.resp.desmos_latex = <<"LATEX">>

\* the conversations of user u that are in initial_probe with at most one
\* interaction, before the step
PendingBefore(u) ==
    {c \in DOMAIN convs :
        /\ convs[c].user = u
        /\ convs[c].status = "initial_probe"
        /\ Cardinality({k \in DOMAIN inters : inters[k].conversation = c}) <= 1}

\* the step starts a session without naming a conversation
SessionStart == last'.op = "chat_view"

\* C33: a session start without a conversation id creates a conversation,
\* with its greeting, exactly when the user has no pending empty
\* conversation, and otherwise shows a pending one and writes nothing; a
\* session start that follows a session start of the same user shows the
\* same conversation and adds no conversation and no entry.
C33_SessionStartReusesThePendingConversation ==
    [][SessionStart =>
          LET u == last'.caller.u
              made == DOMAIN convs' \ DOMAIN convs
          IN /\ DOMAIN convs \subseteq DOMAIN convs'
             /\ \A c \in DOMAIN convs : convs'[c] = convs[c]
             /\ SubSeq(inters', 1, Len(inters)) = inters
             /\ reviews' = reviews
             /\ PendingBefore(u) # {} =>
                   /\ made = {} /\ inters' = inters
                   /\ last'.conv \in PendingBefore(u)
             /\ PendingBefore(u) = {} =>
                   /\ made = {last'.conv}
                   /\ convs'[last'.conv].user = u
                   /\ convs'[last'.conv].status = "initial_probe"
                   /\ Len(inters') = Len(inters) + 1
                   /\ inters'[Len(inters')].conversation = last'.conv
                   /\ inters'[Len(inters')].type = "ai_feedback"
                   /\ inters'[Len(inters')].text_content = GreetingText
             /\ (last.op = "chat_view" /\ last.caller.u = u) =>
                   /\ last'.conv = last.conv
                   /\ made = {} /\ inters' = inters]_vars

\* a session start found the pending conversation of an earlier session
\* start, next to a conversation that had left initial_probe, and wrote
\* nothing
C33_Witness ==
    /\ last.op = "chat_view"
    /\ last.created = {}
    /\ last.was.status = "initial_probe"
    /\ Len(Log(DB, last.conv)) = 1
    /\ Cardinality(DOMAIN convs) = 2
    /\ \E c \in DOMAIN convs : convs[c].user = last.caller.u /\ convs[c].status = "visual_loop"

\* the step leaves the kind, the conversation, the text, the artifact
\* reference and the artifact description of stored entry a as they are in b
SameContent(a, b) ==
    /\ a.type = b.type
    /\ a.conversation = b.conversation
    /\ a.text_content = b.text_content
    /\ a.image_url = b.image_url
    /\ a.image_prompt = b.image_prompt

\* C34: an entry that a step keeps has after it the kind, the conversation,
\* the artifact reference, the artifact description and the text it had
\* before, and a passed-marker that was set stays set; an entry that a
\* submit-turn logs and marks passed in the same step is stored with the
\* kind and the text it was logged with.
C34_LoggedEntriesKeepTheirContent ==
    [][/\ \A k \in DOMAIN inters : \A l \in DOMAIN inters' :
             inters[k].id = inters'[l].id =>
                /\ SameContent(inters[k], inters'[l])
                /\ inters[k].is_passed => inters'[l].is_passed
       /\ last'.op = "send" =>
             \A l \in DOMAIN inters' :
                (inters'[l].id \in last'.created /\ inters'[l].is_passed) =>
                   /\ inters'[l].type \in UserTypes
                   /\ inters'[l].conversation = last'.conv
                   /\ inters'[l].text_content = StoredText
                   /\ inters'[l].image_prompt = None]_vars

\* a turn was evaluated pass while an earlier entry already carried the
\* marker: the entry it logged is marked and holds the text of the learner,
\* and the earlier entry is still marked
C34_Witness ==
    /\ SendServed
    /\ last.gw.intent = "explaining_image" /\ last.gw.evaluation = "pass"
    /\ \E k \in DOMAIN inters :
          /\ inters[k].id \in last.created
          /\ inters[k].is_passed
          /\ inters[k].type \in UserTypes
          /\ inters[k].text_content = last.query
    /\ \E k \in DOMAIN inters :
          /\ inters[k].conversation = last.conv
          /\ inters[k].id \notin last.created
          /\ inters[k].is_passed

\* the database before the step with a review stored for conversation c
WithReview(c) ==
    [DB EXCEPT !.reviews = @ \cup {[conversation |-> c, advice_text |-> <<"REVIEW">>]}]

\* C35: a successful rollback leaves the reviews and the topic and the owner
\* of the conversation as they were; it changes nothing but the log, from
\* which it removes the entries after the target, and the phase and the
\* completed flag of the conversation, which it resets together; and the
\* same request served on the same database with a review stored for the
\* conversation leaves that review and the topic in place.
C35_RollbackTouchesOnlyLogPhaseAndFlag ==
    [][RollbackDone' =>
          LET c == last'.conv
              x == last'.target
              before == convs[c]
              after == convs'[c]
              planted == ApiRollbackConversationResult(WithReview(c), last'.caller.u,
                                                       "POST", c, x).db
          IN /\ reviews' = reviews
             /\ after.topic = before.topic
             /\ after.user = before.user
             /\ \/ after = before
                \/ after = [before EXCEPT !.status = "visual_loop", !.is_completed = FALSE]
             /\ DOMAIN convs' = DOMAIN convs
             /\ \A b \in DOMAIN convs \ {c} : convs'[b] = convs[b]
             /\ inters' = SelectSeq(inters, LAMBDA i : i.conversation # c \/ i.id <= x)
             /\ nextId' = nextId /\ nextConvId' = nextConvId
             /\ planted.reviews = WithReview(c).reviews
             /\ planted.convs[c].topic = before.topic
             /\ planted.convs = convs' /\ planted.inters = inters']_vars

\* a rollback has reopened a completed conversation and removed entries of
\* its log: the conversation still has its topic
C35_Witness ==
    /\ RollbackDone
    /\ last.was.is_completed
    /\ ~convs[last.conv].is_completed
    /\ last.removed # {}
    /\ convs[last.conv].topic = last.was.topic
    /\ ~Falsy(convs[last.conv].topic)

\* C36: a conversation that is not in initial_probe is, after any step that
\* keeps it, in visual_loop or in review: no submit-turn, retry, rollback or
\* session start puts a conversation back in initial_probe.
C36_InitialProbeIsNeverReentered ==
    [][\A c \in DOMAIN convs \cap DOMAIN convs' :
          convs[c].status # "initial_probe" =>
             convs'[c].status \in {"visual_loop", "review"}]_vars

\* a rollback to the greeting, the entry before the first question, has
\* left a conversation with that entry alone, in visual_loop
C36_Witness ==
    /\ RollbackDone
    /\ last.removed # {}
    /\ Len(Log(DB, last.conv)) = 1
    /\ LastInteraction(DB, last.conv).text_content = GreetingText
    /\ last.was.status \in {"visual_loop", "review"}
    /\ convs[last.conv].status = "visual_loop"

\* the conversations that carry the script marker before the step and are
\* kept by it
Scripted == {c \in DOMAIN convs \cap DOMAIN convs' : StartsWith(convs[c].topic, DemoMarker)}

\* the step serves a submit-turn or a retry of a scripted conversation with
\* the script: it calls nothing but the image backend, and what it answers
\* with success is a reply of the script
ServedByTheScript ==
    /\ last'.calls \subseteq {"generate_image"}
    /\ (last'.op = "send" /\ last'.query # None) => last'.resp.status = "success"
    /\ last'.resp.status = "success" =>
          \E k \in 0..5 : StartsWith(last'.resp.answer, ScriptReply(k))
    /\ convs'[last'.conv].status = convs[last'.conv].status
          \/ convs'[last'.conv].status = "visual_loop"

\* C37: a conversation whose topic carries the script marker keeps its
\* topic through every step, and every submit-turn and retry on it is
\* served by the script.
C37_ScriptedTopicIsKept ==
    [][/\ \A c \in Scripted : convs'[c].topic = convs[c].topic
       /\ (last'.op \in {"send", "retry"} /\ last'.conv \in Scripted) =>
             ServedByTheScript]_vars

\* C38: when a retry removes the user entry that ends the log and logs a
\* user entry in its place, the new entry has the kind, the text and the
\* artifact reference of the removed one, after a rollback to a user entry
\* as in any other state.
C38_RetryRecreatesTheSameEntry ==
    [][(RetryServed' /\ EndsWithUserEntry(Log(DB, last'.conv))) =>
          LET old == LastInteraction(DB, last'.conv)
              after == Log(DB', last'.conv)
          IN \A l \in DOMAIN after :
                (after[l].id \in last'.created /\ after[l].type \in UserTypes) =>
                   /\ after[l].type = old.type
                   /\ after[l].text_content = old.text_content
                   /\ after[l].image_url = old.image_url]_vars

\* C39: a submit-turn or a retry on a conversation whose completed flag is
\* set appends no entry and changes nothing: the log, the phase, the topic
\* and the flag of the conversation are after the step as they were before.
C39_CompletedConversationTakesNoTurn ==
    [][(last'.op \in {"send", "retry"} /\ last'.conv # 0
           /\ convs[last'.conv].is_completed) =>
          /\ inters' = inters
          /\ convs' = convs
          /\ reviews' = reviews]_vars
====
